---- MODULE Spec2Model ----
(***************************************************************************)
(* TransferPlaylistV2: the Spotify -> SoundCloud transfer job              *)
(* (main.py run_spotify_to_soundcloud_async), the concurrent track         *)
(* resolver (async_search.py AsyncTrackSearcher) and the sequential        *)
(* transfer (soundcloud.py transfer_to_soundcloud).                        *)
(*                                                                         *)
(* Strings are sequences of one-character strings.  A match score is the   *)
(* exact fraction [num, den] of the float the code computes.  Time is not  *)
(* a number: a deadline (reset_time, expires_at) is "future" until a read  *)
(* of the clock finds it passed, and "past" from then on.                  *)
(***************************************************************************)
EXTENDS Integers, Sequences, FiniteSets, TLC

(***************************************************************************)
(* Bounds of the model                                                     *)
(***************************************************************************)
\* longest source playlist of the full job model
MaxTracks == 2
\* how many times a token refresh may succeed in one behaviour
MaxRefresh == 1
\* AsyncTrackSearcher.rate_limits[...]['limit'] is 100 (spotify) and 50
\* (soundcloud) in async_search.py:15-16; the model scales both down so that
\* a playlist of a few tracks reaches the limit and takes the sleep branch,
\* and keeps them different so that a full window (SpotifyLimit requests)
\* differs from a window that has just begun (1 request).
SpotifyLimit == 2
SoundcloudLimit == 1
\* the failures (a raising database call, a non-200 answer, a raising request,
\* a failing refresh) that the environment of one batch_search_tracks call
\* produces when their number is limited
MaxFaults == 1

\* the limits of RATE_LIMITS (100 and 60 per minute, 1000 and 500 per hour,
\* bursts of 10 and 5), scaled down
RequestsPerMinute == 1
RequestsPerHour == 2
BurstLimit == 1
\* the lengths of the two sliding windows in seconds (60 and 3600), scaled
\* down so that requests_per_minute / 60 stays at one token per second
MinuteSeconds == 1
HourSeconds == 2
\* the resolution of time: ticks in one second
TicksPerSecond == 2
\* concurrent callers of one RateLimiter key
NumCallers == 2

(***************************************************************************)
(* Program constants                                                       *)
(***************************************************************************)
\* asyncio.Semaphore(5)
MaxConcurrent == 5

(***************************************************************************)
(* Text: str.lower, the three re.sub of _normalize_string, str.split       *)
(***************************************************************************)
UpperChars == <<"A", "B", "C", "D", "E", "F", "G", "H", "I", "J", "K", "L", "M",
                "N", "O", "P", "Q", "R", "S", "T", "U", "V", "W", "X", "Y", "Z">>
LowerChars == <<"a", "b", "c", "d", "e", "f", "g", "h", "i", "j", "k", "l", "m",
                "n", "o", "p", "q", "r", "s", "t", "u", "v", "w", "x", "y", "z">>
DigitChars == {"0", "1", "2", "3", "4", "5", "6", "7", "8", "9"}

\* str.lower() on one character
LowerChar(c) ==
    IF \E i \in 1..Len(UpperChars) : UpperChars[i] = c
    THEN LowerChars[CHOOSE i \in 1..Len(UpperChars) : UpperChars[i] = c]
    ELSE c

\* the regex class \w
IsWordChar(c) ==
    \/ \E i \in 1..Len(UpperChars) : UpperChars[i] = c \/ LowerChars[i] = c
    \/ c \in DigitChars
    \/ c = "_"

\* the regex class \s
IsSpaceChar(c) == c \in {" ", "\t", "\n"}

\* s.lower()
LowerStr(s) == [i \in 1..Len(s) |-> LowerChar(s[i])]

\* re.sub(r"[^\w\s]", " ", s)
SubPunct(s) ==
    [i \in 1..Len(s) |-> IF IsWordChar(s[i]) \/ IsSpaceChar(s[i]) THEN s[i] ELSE " "]

\* re.sub(r"\s+", " ", s)
RECURSIVE CollapseSpaces(_)
CollapseSpaces(s) ==
    IF s = << >> THEN << >>
    ELSE IF IsSpaceChar(Head(s))
         THEN IF Len(s) > 1 /\ IsSpaceChar(s[2])
              THEN CollapseSpaces(Tail(s))
              ELSE <<" ">> \o CollapseSpaces(Tail(s))
         ELSE <<Head(s)>> \o CollapseSpaces(Tail(s))

\* s.lstrip()
RECURSIVE LStrip(_)
LStrip(s) ==
    IF s # << >> /\ IsSpaceChar(Head(s)) THEN LStrip(Tail(s)) ELSE s

\* s.rstrip()
RECURSIVE RStrip(_)
RStrip(s) ==
    IF s # << >> /\ IsSpaceChar(s[Len(s)]) THEN RStrip(SubSeq(s, 1, Len(s) - 1)) ELSE s

\* s.strip()
Strip(s) == RStrip(LStrip(s))

\* the alternation of the third re.sub
STOPLIST == { <<"s", "l", "o", "w", "e", "d">>,
              <<"r", "e", "v", "e", "r", "b">>,
              <<"r", "e", "m", "i", "x">>,
              <<"e", "d", "i", "t">>,
              <<"r", "a", "d", "i", "o">>,
              <<"v", "e", "r", "s", "i", "o", "n">>,
              <<"f", "e", "a", "t">>,
              <<"f", "t">> }

\* the length of the run of \w characters s starts with
RECURSIVE WordRunLen(_)
WordRunLen(s) ==
    IF s = << >> \/ ~IsWordChar(Head(s)) THEN 0 ELSE 1 + WordRunLen(Tail(s))

\* re.sub(r"\b(slowed|...|ft)\b", "", s): \b on both sides of a word of \w
\* characters makes a match a whole run of \w characters; it is replaced by
\* the empty string and the characters around it stay
RECURSIVE RemoveStopwords(_)
RemoveStopwords(s) ==
    IF s = << >> THEN << >>
    ELSE IF IsWordChar(Head(s))
         THEN LET n == WordRunLen(s)
                  w == SubSeq(s, 1, n)
                  rest == SubSeq(s, n + 1, Len(s))
              IN  (IF w \in STOPLIST THEN << >> ELSE w) \o RemoveStopwords(rest)
         ELSE <<Head(s)>> \o RemoveStopwords(Tail(s))

\* AsyncTrackSearcher._normalize_string
_normalize_string(s) ==
    RemoveStopwords(Strip(CollapseSpaces(SubPunct(LowerStr(s)))))

\* the length of the run of non-whitespace characters s starts with
RECURSIVE TokenLen(_)
TokenLen(s) ==
    IF s = << >> \/ IsSpaceChar(Head(s)) THEN 0 ELSE 1 + TokenLen(Tail(s))

\* set(s.split()): the set of the maximal runs of non-whitespace characters
RECURSIVE SplitSet(_)
SplitSet(s) ==
    IF s = << >> THEN {}
    ELSE IF IsSpaceChar(Head(s)) THEN SplitSet(Tail(s))
         ELSE LET n == TokenLen(s)
              IN  {SubSeq(s, 1, n)} \cup SplitSet(SubSeq(s, n + 1, Len(s)))

(***************************************************************************)
(* Scores: the float len(intersection) / len(union) as an exact fraction   *)
(***************************************************************************)
Frac(n, d) == [num |-> n, den |-> d]
\* 0.0
ZeroScore == Frac(0, 1)
\* ScoreGT that is a >= b
ScoreGT_OrEqual(a, b) == a.num * b.den >= b.num * a.den
\* a > b on floats
ScoreGT(a, b) == a.num * b.den > b.num * a.den
\* ScoreAccepted that accepts every score
ScoreAccepted_Always(a) == TRUE

\* a >= 0.5
ScoreAccepted(a) == 2 * a.num >= a.den

\* _calculate_match_score that divides by the number of target words
_calculate_match_score_OverTarget(target, candidate) ==
    LET target_words == SplitSet(_normalize_string(target))
        candidate_words == SplitSet(_normalize_string(candidate))
    IN  IF target_words = {} \/ candidate_words = {}
        THEN ZeroScore
        ELSE Frac(Cardinality(target_words \cap candidate_words),
                  Cardinality(target_words))

\* AsyncTrackSearcher._calculate_match_score
_calculate_match_score(target, candidate) ==
    LET target_words == SplitSet(_normalize_string(target))
        candidate_words == SplitSet(_normalize_string(candidate))
    IN  IF target_words = {} \/ candidate_words = {}
        THEN ZeroScore
        ELSE Frac(Cardinality(target_words \cap candidate_words),
                  Cardinality(target_words \cup candidate_words))

\* soundcloud._norm: the same four steps
_norm(s) == RemoveStopwords(Strip(CollapseSpaces(SubPunct(LowerStr(s)))))

\* soundcloud._score, on two normalised strings
_score(a, b) ==
    LET sa == SplitSet(a)
        sb == SplitSet(b)
    IN  IF sa = {} \/ sb = {} THEN ZeroScore
        ELSE Frac(Cardinality(sa \cap sb), Cardinality(sa \cup sb))

\* f"{title} {artist}"
JoinTA(title, artist) == title \o <<" ">> \o artist

\* query = f"{title} {artist}".strip()
QueryOf(title, artist) == Strip(JoinTA(title, artist))

(***************************************************************************)
(* The data the model runs on                                              *)
(***************************************************************************)
\* (name, artist) pairs of the source playlist
TrackA == [title |-> <<"H", "i">>, artist |-> <<"Y", "o">>]
TrackB == [title |-> <<"Y", "o">>, artist |-> << >>]
Tracks == {TrackA, TrackB}
\* a track whose f"{title} {artist}" differs from TrackA's in case and
\* punctuation only
TrackC == [title |-> <<"h", "i">>, artist |-> <<"Y", "O", "!">>]
AllTracks == Tracks \cup {TrackC}

\* items of a search response; id 0 stands for an item without an 'id'
CandGood == [id |-> 7, title |-> <<"h", "i">>, user |-> <<"y", "o">>]
CandLow == [id |-> 8, title |-> <<"h", "i", " ", "f", "t">>, user |-> <<"z", "z">>]
CandOther == [id |-> 9, title |-> <<"Y", "O", "!", " ", "h", "i">>, user |-> << >>]
CandNoId == [id |-> 0, title |-> <<"y", "o">>, user |-> << >>]

\* the candidates the catalogues hold
Candidates == {CandGood, CandLow, CandOther, CandNoId}

\* what the destination's search endpoints answer for a query
CatalogueNames == {"all", "none", "edge"}
Catalogue(name, query) ==
    CASE name = "all" ->
            IF query = QueryOf(TrackA.title, TrackA.artist)
            THEN <<CandLow, CandGood>> ELSE <<CandOther>>
      [] name = "none" ->
            IF query = QueryOf(TrackA.title, TrackA.artist)
            THEN <<CandLow>> ELSE << >>
      [] OTHER ->
            IF query = QueryOf(TrackA.title, TrackA.artist)
            THEN <<CandNoId>> ELSE <<CandGood>>

\* all sequences over S of length at most n
RECURSIVE SeqsUpTo(_, _)
SeqsUpTo(S, n) ==
    IF n = 0 THEN {<< >>}
    ELSE LET shorter == SeqsUpTo(S, n - 1)
         IN  shorter \cup {Append(q, x) : q \in {r \in shorter : Len(r) = n - 1}, x \in S}

Playlists == SeqsUpTo(Tracks, MaxTracks)

\* the playlist that keeps one resolution waiting for the semaphore
BatchPlaylist == [i \in 1..(MaxConcurrent + 1) |-> IF i = 2 THEN TrackB ELSE TrackA]

Platforms == {"spotify", "soundcloud"}

(***************************************************************************)
(* State                                                                   *)
(***************************************************************************)
VARIABLES
    pc,            \* where the entry point that runs is
    PROGRESS,      \* main.py PROGRESS[session_id]
    writes,        \* how many set_progress calls the run made, and how many wrote 100
    job,           \* locals of run_spotify_to_soundcloud_async
    batch,         \* arguments of batch_search_tracks and the searcher's rate_limits
    task,          \* the search_with_semaphore tasks: position and result
    cache,         \* rows of the search_cache table, in insertion order
    tokens,        \* the session's user_sessions row, per platform
    history,       \* rows of the transfer_history table, in insertion order
    calls,         \* outbound requests issued so far, per kind
    env,           \* the source playlist and the destination catalogue
    sync,          \* locals of soundcloud.transfer_to_soundcloud
    bucket,        \* rate_limiting.py RateLimiter.buckets[key], for one key
    callers,       \* the callers of the RateLimiter: position and last answer
    lookups,       \* the callers of get_*_token: position and what they sent
    observed       \* the last call a specification observes: inputs and outcome

vars == <<pc, PROGRESS, writes, job, batch, task, cache, tokens, history, calls, env, sync,
          bucket, callers, lookups, observed>>

\* the state of the transfer entry points
jobvars == <<pc, PROGRESS, writes, job, batch, task, cache, history, calls, env, sync, observed>>

Max(a, b) == IF a > b THEN a ELSE b
Min(a, b) == IF a < b THEN a ELSE b

(***************************************************************************)
(* main.py set_progress                                                    *)
(***************************************************************************)
\* max(0, min(100, int(percent)))
ClampPercent(percent) == Max(0, Min(100, percent))

\* PROGRESS[session_id] = {...}; url is the link the message carries
SetProgress(percent, message, url) ==
    /\ PROGRESS' = [percent |-> ClampPercent(percent), message |-> message, url |-> url]
    /\ writes' = [n |-> writes.n + 1,
                  hundreds |-> writes.hundreds + (IF ClampPercent(percent) = 100 THEN 1 ELSE 0)]

NoUrl == "-"

(***************************************************************************)
(* token_manager.py: the stored record and get_*_token                     *)
(***************************************************************************)
\* access and refresh are 0 for None, else the generation of the token;
\* expires is "none" (NULL), "future" or "past" (utcnow() >= expires_at)
NoToken == [access |-> 0, refresh |-> 0, expires |-> "none"]

\* outcome of the POST of _refresh_*_token: not 200 or raised ("fail"), or 200
\* without refresh_token ("kept"); a 200 with a new refresh_token ("rotated")
\* is an outcome Refreshed handles and the transfer model does not draw
RefreshOutcomes == {"fail", "kept"}

\* Refreshed that saves the refresh_token of the response as it came
Refreshed_Dropped(rec, outcome) ==
    IF outcome = "fail" \/ rec.access > MaxRefresh
    THEN rec
    ELSE [access |-> rec.access + 1,
          refresh |-> IF outcome = "kept" THEN 0 ELSE rec.refresh + 1,
          expires |-> "future"]

\* _refresh_*_token followed by save_*_token: the new record, or the old
\* record when the refresh returned None
Refreshed(rec, outcome) ==
    IF outcome = "fail" \/ rec.access > MaxRefresh
    THEN rec
    ELSE [access |-> rec.access + 1,
          refresh |-> IF outcome = "kept" THEN rec.refresh ELSE rec.refresh + 1,
          expires |-> "future"]

\* TokenManager.get_spotify_token: [token, rec]
get_spotify_token(rec, outcome) ==
    IF rec.access = 0 THEN [token |-> 0, rec |-> rec]
    ELSE IF rec.expires = "future" THEN [token |-> rec.access, rec |-> rec]
    ELSE IF rec.refresh # 0 /\ Refreshed(rec, outcome) # rec
         THEN [token |-> Refreshed(rec, outcome).access, rec |-> Refreshed(rec, outcome)]
         ELSE [token |-> 0, rec |-> rec]

\* TokenManager.get_soundcloud_token: [token, rec]
get_soundcloud_token(rec, outcome) ==
    IF rec.access = 0 THEN [token |-> 0, rec |-> rec]
    ELSE IF rec.expires = "future" THEN [token |-> rec.access, rec |-> rec]
    ELSE IF rec.refresh # 0 /\ Refreshed(rec, outcome) # rec
         THEN [token |-> Refreshed(rec, outcome).access, rec |-> Refreshed(rec, outcome)]
         ELSE [token |-> rec.access, rec |-> rec]

\* the stored record as a lookup finds it: passed tells whether utcnow() has
\* reached an expires_at that was in the future at the previous lookup
AtLookup(rec, passed) ==
    IF rec.expires = "future" /\ passed THEN [rec EXCEPT !.expires = "past"] ELSE rec

get_token(platform, rec, outcome) ==
    IF platform = "spotify" THEN get_spotify_token(rec, outcome)
    ELSE get_soundcloud_token(rec, outcome)

(***************************************************************************)
(* async_search.py: results, cache, rate limit, best match                 *)
(***************************************************************************)
\* what a resolution returns: None, a raised exception (as gather stores
\* it), or the best_match dict; "pending" while the task has not returned
Result(kind, id, title, artist, score) ==
    [kind |-> kind, id |-> id, title |-> title, artist |-> artist, match_score |-> score]
PendingResult == Result("pending", 0, << >>, << >>, ZeroScore)
NoneResult == Result("None", 0, << >>, << >>, ZeroScore)
RaisedResult == Result("Exception", 0, << >>, << >>, ZeroScore)
\* best_match = {'id': ..., 'title': ..., 'artist': ..., 'match_score': score}
MatchResult(track, score) == Result("match", track.id, track.title, track.user, score)

\* AsyncTrackSearcher._search_cache: the first row of (query, platform), as
\* the dict the method builds, or None
_search_cache(rows, query, platform) ==
    LET hits == SelectSeq(rows, LAMBDA r : r.query = query /\ r.platform = platform)
    IN  IF hits = << >> THEN NoneResult
        ELSE Result("match", hits[1].id, hits[1].title, hits[1].artist, hits[1].match_score)

\* CacheHit that never sees the entry
CacheHit_Never(cached) == FALSE

\* "if cached: return cached" of search_*_track
CacheHit(cached) == cached.kind = "match"

\* AsyncTrackSearcher._cache_result: the table after db.add and db.commit;
\* age tells whether the row was written within the last 3600 seconds
\* ("fresh") or before that ("old")
_cache_result(rows, query, platform, result) ==
    Append(rows, [query |-> query, platform |-> platform, id |-> result.id,
                  title |-> result.title, artist |-> result.artist,
                  match_score |-> result.match_score, age |-> "fresh"])

\* AsyncTrackSearcher.__init__: rate_limits; reset_time 0 is in the past
InitRateLimits ==
    [spotify |-> [requests |-> 0, reset_time |-> "past", limit |-> SpotifyLimit],
     soundcloud |-> [requests |-> 0, reset_time |-> "past", limit |-> SoundcloudLimit]]

\* rate_info as a check finds it: passed tells whether time.time() has gone
\* beyond a reset_time that was in the future at the previous check
AtCheck(rate_info, passed) ==
    IF rate_info.reset_time = "future" /\ passed
    THEN [rate_info EXCEPT !.reset_time = "past"] ELSE rate_info

\* AsyncTrackSearcher._check_rate_limit: [allowed, info]
_check_rate_limit(rate_info) ==
    LET reset == IF rate_info.reset_time = "past"
                 THEN [rate_info EXCEPT !.requests = 0, !.reset_time = "future"]
                 ELSE rate_info
    IN  IF reset.requests >= reset.limit
        THEN [allowed |-> FALSE, info |-> reset]
        ELSE [allowed |-> TRUE, info |-> [reset EXCEPT !.requests = @ + 1]]

\* the "Find best match" loop of search_soundcloud_track
RECURSIVE BestMatch(_, _, _)
BestMatch(query, tracks, best) ==
    IF tracks = << >> THEN best
    ELSE LET track == Head(tracks)
             score == _calculate_match_score(query, JoinTA(track.title, track.user))
         IN  BestMatch(query, Tail(tracks),
                       IF ScoreGT(score, best.match_score) THEN MatchResult(track, score) ELSE best)

\* the same loop of search_spotify_track, where track['id'] raises KeyError
\* for an item without an id
RECURSIVE BestMatchSpotify(_, _, _)
BestMatchSpotify(query, tracks, best) ==
    IF tracks = << >> THEN best
    ELSE LET track == Head(tracks)
             score == _calculate_match_score(query, JoinTA(track.title, track.user))
         IN  IF ScoreGT(score, best.match_score)
             THEN IF track.id = 0 THEN RaisedResult
                  ELSE BestMatchSpotify(query, Tail(tracks), MatchResult(track, score))
             ELSE BestMatchSpotify(query, Tail(tracks), best)

\* ScanResponse without the test of best_score
ScanResponse_NoThreshold(platform, query, tracks) ==
    LET best == IF platform = "spotify" THEN BestMatchSpotify(query, tracks, NoneResult)
                ELSE BestMatch(query, tracks, NoneResult)
    IN  IF tracks = << >> THEN NoneResult
        ELSE IF best.kind = "match" THEN best
        ELSE IF best.kind = "Exception" THEN RaisedResult
        ELSE NoneResult

\* what a 200 response is turned into, before the cache write: the accepted
\* best match, None, or an exception raised inside the try block
ScanResponse(platform, query, tracks) ==
    LET best == IF platform = "spotify" THEN BestMatchSpotify(query, tracks, NoneResult)
                ELSE BestMatch(query, tracks, NoneResult)
    IN  IF tracks = << >> THEN NoneResult
        ELSE IF best.kind = "match" /\ ScoreAccepted(best.match_score) THEN best
        ELSE IF best.kind = "Exception" THEN RaisedResult
        ELSE NoneResult

\* the query of every track and what a 200 response to it is turned into,
\* worked out once for the tracks and catalogues above
Queries == [t \in AllTracks |-> QueryOf(t.title, t.artist)]
Scanned ==
    [p \in Platforms, name \in CatalogueNames, t \in AllTracks |->
        ScanResponse(p, Queries[t], Catalogue(name, Queries[t]))]

\* the tasks that hold the semaphore
Holding == {i \in DOMAIN task : task[i].pc \in {"sleep", "v2", "v1"}}

\* SemaphoreFree that hands out one permit too many
SemaphoreFree_OneMore == Cardinality(Holding) <= MaxConcurrent

\* asyncio.Semaphore(5): a permit is left
SemaphoreFree == Cardinality(Holding) < MaxConcurrent

\* asyncio wakes the waiters of a semaphore in the order they arrived, which
\* is the order gather created the tasks in
NextWaiter(i) ==
    /\ task[i].pc = "pending"
    /\ \A j \in DOMAIN task : j < i => task[j].pc # "pending"

\* pct of progress_callback in run_spotify_to_soundcloud_async
CallbackPercent(done, total) == 20 + (done * 60) \div Max(1, total)

\* FoundTracks with "if result" alone, which a stored exception passes
FoundTracks_Truthy(results) == SelectSeq(results, LAMBDA r : r.kind \in {"match", "Exception"})

\* transfer_playlist_async: the "Filter successful matches" comprehension
FoundTracks(results) == SelectSeq(results, LAMBDA r : r.kind = "match")

\* transfer_playlist_async: the returned dict, without success_rate
SearchResult(track_list, results) ==
    [total_tracks |-> Len(track_list),
     found_tracks |-> Len(FoundTracks(results)),
     tracks |-> FoundTracks(results)]

\* what gather returns: the results in task order
GatherResults == [i \in 1..Len(batch.track_list) |-> task[i].result]

\* TrackIds that puts each id in front of the ids collected so far
RECURSIVE TrackIds_Reversed(_)
TrackIds_Reversed(found) ==
    IF found = << >> THEN << >>
    ELSE TrackIds_Reversed(Tail(found)) \o (IF Head(found).id # 0 THEN <<Head(found).id>> ELSE << >>)

\* track_ids = [int(track['id']) for track in found_tracks if track.get('id')]
RECURSIVE TrackIds(_)
TrackIds(found) ==
    IF found = << >> THEN << >>
    ELSE (IF Head(found).id # 0 THEN <<Head(found).id>> ELSE << >>) \o TrackIds(Tail(found))

(***************************************************************************)
(* Initial state                                                           *)
(***************************************************************************)
\* a token local is -1 until it is assigned; attach is how the PUT of the
\* tracks was answered, "-" until it is
(***************************************************************************)
(* rate_limiting.py: RateLimiter, for one key of a known platform. Time is *)
(* counted in ticks; a timestamp is held as its age, now - timestamp       *)
(***************************************************************************)
\* RATE_LIMITS[platform]
RateLimit ==
    [requests_per_minute |-> RequestsPerMinute, requests_per_hour |-> RequestsPerHour,
     burst_limit |-> BurstLimit]

\* int(x) for the float x = n / d
IntOf(n, d) == IF n >= 0 THEN n \div d ELSE -((-n) \div d)

\* ages beyond these are all alike: the timestamp has left the hour window,
\* the refill fills the bucket whatever the tokens were
AgeCap == HourSeconds * TicksPerSecond + 1
RefillCap == (BurstLimit + NumCallers) * MinuteSeconds * TicksPerSecond

\* the defaultdict's bucket; used is FALSE until the key is first referenced,
\* which is when last_refill = time.time() is evaluated
NewBucket ==
    [tokens |-> 0, last_refill |-> 0, minute_requests |-> << >>, hour_requests |-> << >>,
     used |-> FALSE]

\* RateLimiter._clean_old_requests
RECURSIVE _clean_old_requests(_, _)
_clean_old_requests(requests_queue, max_age) ==
    IF requests_queue # << >> /\ requests_queue[1] > max_age * TicksPerSecond
    THEN _clean_old_requests(Tail(requests_queue), max_age)
    ELSE requests_queue

\* MinuteFull that lets one more request through
MinuteFull_OneMore(minute_requests) ==
    Len(minute_requests) > RateLimit.requests_per_minute

\* len(bucket['minute_requests']) >= rate_limit.requests_per_minute
MinuteFull(minute_requests) ==
    Len(minute_requests) >= RateLimit.requests_per_minute

\* BucketEmpty that never denies
BucketEmpty_Never(bucket_tokens) == FALSE

\* if bucket['tokens'] < 1
BucketEmpty(bucket_tokens) == bucket_tokens < 1

\* RateLimiter.can_make_request: [allowed, wait_time, bucket]; wait_time 0
\* stands for None
can_make_request(b, known) ==
    LET cleaned == [b EXCEPT !.used = TRUE,
                             !.minute_requests = _clean_old_requests(@, MinuteSeconds),
                             !.hour_requests = _clean_old_requests(@, HourSeconds)]
        tokens_to_add ==
            IntOf(cleaned.last_refill * RateLimit.requests_per_minute,
                  MinuteSeconds * TicksPerSecond)
        refilled == [cleaned EXCEPT !.tokens = Min(RateLimit.burst_limit, @ + tokens_to_add),
                                    !.last_refill = 0]
    IN  IF ~known
        THEN [allowed |-> TRUE, wait_time |-> 0, bucket |-> [b EXCEPT !.used = TRUE]]
        ELSE IF MinuteFull(cleaned.minute_requests)
        THEN [allowed |-> FALSE, bucket |-> cleaned,
              wait_time |-> IntOf((MinuteSeconds + 1) * TicksPerSecond
                                     - cleaned.minute_requests[1], TicksPerSecond)]
        ELSE IF Len(cleaned.hour_requests) >= RateLimit.requests_per_hour
        THEN [allowed |-> FALSE, bucket |-> cleaned,
              wait_time |-> IntOf((HourSeconds + 1) * TicksPerSecond
                                     - cleaned.hour_requests[1], TicksPerSecond)]
        ELSE IF BucketEmpty(refilled.tokens)
        THEN [allowed |-> FALSE, wait_time |-> 1, bucket |-> refilled]
        ELSE [allowed |-> TRUE, wait_time |-> 0, bucket |-> refilled]

\* RateLimiter.consume_request
consume_request(b) ==
    [b EXCEPT !.used = TRUE,
              !.minute_requests = Append(@, 0),
              !.hour_requests = Append(@, 0),
              !.tokens = @ - 1]

\* the callers of one key: wait is what is left of asyncio.sleep(wait_time),
\* in ticks
Callers == 1..NumCallers
IdleCaller == [pc |-> "idle", wait |-> 0]

\* the callers of get_*_token: the request handler and the resolutions
LookupCallers == {"handler", "resolution1", "resolution2"}
IdleLookup == [pc |-> "idle", platform |-> "-", sent |-> 0, token |-> -1]

\* what a request can do: answer with a status, or raise
Statuses == {"200", "401", "500", "raise"}

\* observed while no specification has observed a call
Unobserved == [kind |-> "none"]

\* env.faults: the failures the environment still has in store (Unlimited:
\* any number)
Unlimited == -1
Cost(ok) == IF ok THEN 0 ELSE 1
Affordable(k) == env.faults = Unlimited \/ k <= env.faults
Spend(k) == IF env.faults = Unlimited THEN env ELSE [env EXCEPT !.faults = @ - k]

InitJob ==
    [spotify_token |-> -1, soundcloud_token |-> -1,
     search_result |-> [total_tracks |-> 0, found_tracks |-> 0, tracks |-> << >>],
     track_ids |-> << >>, playlist_id |-> 0, playlist_url |-> NoUrl, permalink |-> NoUrl,
     attach |-> "-", history_raised |-> FALSE]

IdleBatch ==
    [platform |-> "soundcloud", callback |-> FALSE, track_list |-> << >>,
     rate_limits |-> InitRateLimits]

InitSync ==
    [blob |-> [access |-> 0, refresh |-> 0], pairs |-> << >>, idx |-> 0,
     found_ids |-> << >>, misses |-> 0, message |-> "-", searches |-> 0, creates |-> 0]

\* the records a session can have stored before a transfer is requested
StoredTokens ==
    {NoToken, [access |-> 1, refresh |-> 1, expires |-> "future"]}

\* no entry point has run
InitIdle ==
    /\ pc = "idle"
    /\ PROGRESS = [percent |-> 0, message |-> "waiting", url |-> NoUrl]
    /\ writes = [n |-> 0, hundreds |-> 0]
    /\ job = InitJob
    /\ batch = IdleBatch
    /\ task = << >>
    /\ cache = << >>
    /\ history = << >>
    /\ calls = [fetch |-> 0, search |-> 0, create |-> 0, attach |-> 0]
    /\ sync = InitSync
    /\ bucket = NewBucket
    /\ callers = [c \in Callers |-> IdleCaller]
    /\ lookups = [c \in LookupCallers |-> IdleLookup]

InitCommon ==
    /\ InitIdle
    /\ observed = Unobserved

Init ==
    /\ InitCommon
    /\ tokens \in [Platforms -> StoredTokens]
    /\ env \in [playlist : Playlists, catalogue : CatalogueNames, faults : {Unlimited}]

(***************************************************************************)
(* async_search.py: search_with_semaphore, one action per stretch of code  *)
(* between two points where the task is suspended                          *)
(***************************************************************************)
TrackQuery(i) == Queries[batch.track_list[i]]

\* search_with_semaphore returns or raises: the result is stored for gather,
\* the semaphore is released, and progress_callback(index + 1, len(track_list), ...)
\* has run if the search returned; b is the batch state the step leaves
Finish(i, result, returned, b) ==
    /\ task' = [task EXCEPT ![i] = [pc |-> "done", result |-> result]]
    /\ batch' = b
    /\ IF batch.callback /\ returned
       THEN SetProgress(CallbackPercent(i, Len(batch.track_list)), "searching", NoUrl)
       ELSE UNCHANGED <<PROGRESS, writes>>

\* token lookup and the first request of search_*_track (lines 116-128, 179-192)
TokenAndSend(i, db_ok, passed, outcome, b) ==
    LET p == batch.platform
        g == get_token(p, AtLookup(tokens[p], passed), outcome)
    IN  IF ~db_ok
        THEN Finish(i, RaisedResult, FALSE, b) /\ UNCHANGED <<tokens, calls>>
        ELSE /\ tokens' = [tokens EXCEPT ![p] = g.rec]
             /\ IF g.token = 0
                THEN Finish(i, NoneResult, TRUE, b) /\ UNCHANGED calls
                ELSE /\ task' = [task EXCEPT ![i] = [pc |-> "v2", result |-> PendingResult]]
                     /\ batch' = b
                     /\ calls' = [calls EXCEPT !.search = @ + 1]
                     /\ UNCHANGED <<PROGRESS, writes>>

\* the semaphore is acquired; cache lookup, rate-limit check, token, request
TaskStart(i) ==
    /\ pc \in {"searching", "batch"}
    /\ NextWaiter(i)
    /\ SemaphoreFree
    /\ \E cache_ok \in BOOLEAN, db_ok \in BOOLEAN, window_over \in BOOLEAN,
          passed \in BOOLEAN, outcome \in RefreshOutcomes :
         LET p == batch.platform
             cached == _search_cache(cache, TrackQuery(i), p)
             rl == _check_rate_limit(AtCheck(batch.rate_limits[p], window_over))
             k == Cost(cache_ok) + Cost(db_ok) + Cost(outcome # "fail")
         IN  /\ Affordable(k)
             /\ env' = Spend(k)
             /\ IF ~cache_ok
                THEN Finish(i, RaisedResult, FALSE, batch) /\ UNCHANGED <<tokens, calls>>
                ELSE IF CacheHit(cached)
                THEN Finish(i, cached, TRUE, batch) /\ UNCHANGED <<tokens, calls>>
                ELSE IF rl.allowed
                THEN TokenAndSend(i, db_ok, passed, outcome,
                                  [batch EXCEPT !.rate_limits[p] = rl.info])
                ELSE /\ task' = [task EXCEPT ![i].pc = "sleep"]
                     /\ batch' = [batch EXCEPT !.rate_limits[p] = rl.info]
                     /\ UNCHANGED <<PROGRESS, writes, tokens, calls>>
    /\ UNCHANGED <<pc, job, cache, history, sync>>

\* asyncio.sleep(60) returns
TaskWake(i) ==
    /\ pc \in {"searching", "batch"}
    /\ i \in DOMAIN task
    /\ task[i].pc = "sleep"
    /\ \E db_ok \in BOOLEAN, passed \in BOOLEAN, outcome \in RefreshOutcomes :
         LET k == Cost(db_ok) + Cost(outcome # "fail")
         IN  /\ Affordable(k)
             /\ env' = Spend(k)
             /\ TokenAndSend(i, db_ok, passed, outcome, batch)
    /\ UNCHANGED <<pc, job, cache, history, sync>>

\* a 200 response: scoring, the cache write of an accepted match, return
Handle200(i, commit_ok) ==
    LET p == batch.platform
        q == TrackQuery(i)
        found == Scanned[p, env.catalogue, batch.track_list[i]]
    IN  IF found.kind = "match" /\ commit_ok
        THEN cache' = _cache_result(cache, q, p, found) /\ Finish(i, found, TRUE, batch)
        ELSE UNCHANGED cache /\ Finish(i, NoneResult, TRUE, batch)

\* "if response.status != 200" of search_soundcloud_track (line 194): the
\* request to api.soundcloud.com/tracks follows
NeedsFallback(platform, status) ==
    platform = "soundcloud" /\ status # "200"

\* task i waits for the answer to the request it sent to endpoint
Awaits(i, endpoint) ==
    /\ pc \in {"searching", "batch"}
    /\ i \in DOMAIN task
    /\ task[i].pc = endpoint

\* the first request of task i is answered with status (or raises)
V2Answered(i, status, commit_ok) ==
    /\ Affordable(Cost(status = "200") + Cost(commit_ok))
    /\ env' = Spend(Cost(status = "200") + Cost(commit_ok))
    /\ CASE status = "200" -> Handle200(i, commit_ok) /\ UNCHANGED calls
         [] status = "raise" -> Finish(i, NoneResult, TRUE, batch) /\ UNCHANGED <<cache, calls>>
         [] OTHER ->
              IF NeedsFallback(batch.platform, status)
              THEN /\ task' = [task EXCEPT ![i].pc = "v1"]
                   /\ calls' = [calls EXCEPT !.search = @ + 1]
                   /\ UNCHANGED <<PROGRESS, writes, batch, cache>>
              ELSE Finish(i, NoneResult, TRUE, batch) /\ UNCHANGED <<cache, calls>>
    /\ UNCHANGED <<pc, job, tokens, history, sync>>

\* the statuses other than 200 all take the branch of "!= 200": one of them
\* stands for all where the status is not observed
TaskV2Response(i) ==
    /\ Awaits(i, "v2")
    /\ \E status \in {"200", "500", "raise"}, commit_ok \in BOOLEAN :
         V2Answered(i, status, commit_ok)

\* the fallback request to api.soundcloud.com/tracks of task i is answered
\* with status (or raises)
V1Answered(i, status, commit_ok) ==
    /\ Affordable(Cost(status = "200") + Cost(commit_ok))
    /\ env' = Spend(Cost(status = "200") + Cost(commit_ok))
    /\ IF status = "200" THEN Handle200(i, commit_ok)
       ELSE Finish(i, NoneResult, TRUE, batch) /\ UNCHANGED cache
    /\ UNCHANGED <<pc, job, tokens, history, calls, sync>>

TaskV1Response(i) ==
    /\ Awaits(i, "v1")
    /\ \E status \in {"200", "500", "raise"}, commit_ok \in BOOLEAN :
         V1Answered(i, status, commit_ok)

\* gather has a result for every task
AllDone == \A i \in DOMAIN task : task[i].pc = "done"

\* batch_search_tracks begins: the tasks of gather, a new AsyncTrackSearcher
NewTasks(track_list) ==
    [i \in 1..Len(track_list) |-> [pc |-> "pending", result |-> PendingResult]]

(***************************************************************************)
(* main.py run_spotify_to_soundcloud_async, one action per progress write  *)
(***************************************************************************)
\* record_transfer_history: the table after db.add and db.commit
record_transfer_history(rows, status, destination_url, tracks_total, tracks_found) ==
    Append(rows, [transfer_status |-> status, destination_playlist_url |-> destination_url,
                  tracks_total |-> tracks_total, tracks_found |-> tracks_found])

\* line 86
JobStart ==
    /\ pc \in {"idle", "queued"}
    /\ pc' = "auth"
    /\ SetProgress(5, "checking", NoUrl)
    /\ UNCHANGED <<job, batch, task, cache, tokens, history, calls, env, sync>>

\* AuthVerdict without the test of the SoundCloud token
AuthVerdict_SpotifyOnly(spotify_token, soundcloud_token) ==
    IF spotify_token = 0 THEN "spotify_auth_required" ELSE "ok"

\* lines 91-97: the two "if not ..._token" tests
AuthVerdict(spotify_token, soundcloud_token) ==
    IF spotify_token = 0 THEN "spotify_auth_required"
    ELSE IF soundcloud_token = 0 THEN "soundcloud_auth_required"
    ELSE "ok"

\* lines 88-100: both tokens are looked up, then tested; db_fail names the
\* lookup whose database query raises
JobAuth ==
    /\ pc = "auth"
    /\ \E db_fail \in {"none", "first", "second"}, passed1 \in BOOLEAN, passed2 \in BOOLEAN,
          o1 \in RefreshOutcomes, o2 \in RefreshOutcomes :
         LET g1 == get_spotify_token(AtLookup(tokens.spotify, passed1), o1)
             g2 == get_soundcloud_token(AtLookup(tokens.soundcloud, passed2), o2)
         IN  CASE db_fail = "first" ->
                    /\ pc' = "outer_exc"
                    /\ UNCHANGED <<PROGRESS, writes, job, tokens>>
               [] db_fail = "second" ->
                    /\ pc' = "outer_exc"
                    /\ tokens' = [tokens EXCEPT !.spotify = g1.rec]
                    /\ job' = [job EXCEPT !.spotify_token = g1.token]
                    /\ UNCHANGED <<PROGRESS, writes>>
               [] OTHER ->
                    /\ tokens' = [spotify |-> g1.rec, soundcloud |-> g2.rec]
                    /\ job' = [job EXCEPT !.spotify_token = g1.token,
                                          !.soundcloud_token = g2.token]
                    /\ IF AuthVerdict(g1.token, g2.token) # "ok"
                       THEN /\ pc' = "done"
                            /\ SetProgress(100, AuthVerdict(g1.token, g2.token), NoUrl)
                       ELSE /\ pc' = "fetch"
                            /\ SetProgress(10, "fetching", NoUrl)
    /\ UNCHANGED <<batch, task, cache, history, calls, env, sync>>

\* lines 102-134: sp.playlist and sp.next, then "Found n tracks" or the failure
JobFetch ==
    /\ pc = "fetch"
    /\ calls' = [calls EXCEPT !.fetch = @ + 1]
    /\ \E fetched \in BOOLEAN :
         IF fetched
         THEN /\ batch' = [batch EXCEPT !.track_list = env.playlist]
              /\ pc' = "found"
              /\ SetProgress(20, "found", NoUrl)
         ELSE /\ pc' = "done"
              /\ SetProgress(100, "fetch_failed", NoUrl)
              /\ UNCHANGED batch
    /\ UNCHANGED <<job, task, cache, tokens, history, env, sync>>

\* lines 141-149: "Starting SoundCloud search", then transfer_playlist_async
\* creates the searcher and batch_search_tracks the tasks
JobSearch ==
    /\ pc = "found"
    /\ pc' = "searching"
    /\ SetProgress(25, "starting", NoUrl)
    /\ batch' = [platform |-> "soundcloud", callback |-> TRUE, track_list |-> batch.track_list,
                 rate_limits |-> InitRateLimits]
    /\ task' = NewTasks(batch.track_list)
    /\ UNCHANGED <<job, cache, tokens, history, calls, env, sync>>

\* NothingFound without the test
NothingFound_Never(found_tracks) == FALSE

\* line 154: if not found_tracks
NothingFound(found_tracks) == found_tracks = << >>

\* lines 151-159: transfer_playlist_async has returned
JobCollect ==
    /\ pc = "searching"
    /\ AllDone
    /\ LET search_result == SearchResult(batch.track_list, GatherResults)
       IN  /\ job' = [job EXCEPT !.search_result = search_result]
           /\ IF NothingFound(search_result.tracks)
              THEN pc' = "done" /\ SetProgress(100, "no_match", NoUrl)
              ELSE pc' = "create" /\ SetProgress(85, "creating", NoUrl)
    /\ UNCHANGED <<batch, task, cache, tokens, history, calls, env, sync>>

\* the bodies a 200/201 answer of POST /playlists can have: with or without
\* 'id' (0: without) and 'permalink_url' ("-": without)
CreateResponses == [id : {0, 33}, permalink_url : {NoUrl, "sc/p1", "sc/p2"}]

\* playlist_result.get('permalink_url', 'Created successfully')
PlaylistUrl(response) ==
    IF response.permalink_url = NoUrl THEN "Created successfully" ELSE response.permalink_url

\* lines 161-192 and 243-265: the POST; with nothing to attach the job is
\* recorded and finished here
JobCreate ==
    /\ pc = "create"
    /\ calls' = [calls EXCEPT !.create = @ + 1]
    /\ \E outcome \in {"ok", "status", "raise"}, response \in CreateResponses, db_ok \in BOOLEAN :
         LET track_ids == TrackIds(job.search_result.tracks)
         IN  IF outcome # "ok"
             THEN /\ pc' = "inner_exc"
                  /\ job' = [job EXCEPT !.track_ids = track_ids]
                  /\ UNCHANGED <<PROGRESS, writes, history>>
             ELSE /\ job' = [job EXCEPT !.track_ids = track_ids,
                                        !.playlist_id = response.id,
                                        !.playlist_url = PlaylistUrl(response),
                                        !.permalink = response.permalink_url,
                                        !.history_raised =
                                            ~(track_ids # << >> /\ response.id # 0) /\ ~db_ok]
                  /\ IF track_ids # << >> /\ response.id # 0
                     THEN /\ pc' = "attach"
                          /\ SetProgress(90, "adding", NoUrl)
                          /\ UNCHANGED history
                     ELSE IF db_ok
                     THEN /\ history' = record_transfer_history(history, "completed",
                                            PlaylistUrl(response), Len(batch.track_list), 0)
                          /\ pc' = "done"
                          /\ SetProgress(100, "empty_created", PlaylistUrl(response))
                     ELSE /\ pc' = "inner_exc"
                          /\ UNCHANGED <<PROGRESS, writes, history>>
    /\ UNCHANGED <<batch, task, cache, tokens, env, sync>>

\* lines 194-242: the PUT of the tracks and the two ways it is answered
JobAttach ==
    /\ pc = "attach"
    /\ calls' = [calls EXCEPT !.attach = @ + 1]
    /\ \E outcome \in {"ok", "status", "raise"}, db_ok \in BOOLEAN :
       /\ job' = [job EXCEPT !.attach = outcome,
                              !.history_raised = outcome # "raise" /\ ~db_ok]
       /\ CASE outcome = "ok" /\ db_ok ->
                /\ history' = record_transfer_history(history, "completed", job.playlist_url,
                                  Len(batch.track_list), job.search_result.found_tracks)
                /\ pc' = "done"
                /\ SetProgress(100, "completed", job.playlist_url)
            [] outcome = "status" /\ db_ok ->
                /\ history' = record_transfer_history(history, "partial", job.playlist_url,
                                  Len(batch.track_list), 0)
                /\ pc' = "done"
                /\ SetProgress(100, "partial", job.playlist_url)
            [] OTHER ->
                /\ pc' = "inner_exc"
                /\ UNCHANGED <<PROGRESS, writes, history>>
    /\ UNCHANGED <<batch, task, cache, tokens, env, sync>>

\* JobInnerExcept that reports the failure before it records it
JobInnerExcept_ReportFirst ==
    /\ pc = "inner_exc"
    /\ SetProgress(100, "create_failed", NoUrl)
    /\ \E db_ok \in BOOLEAN :
         IF db_ok
         THEN /\ history' = record_transfer_history(history, "failed", NoUrl,
                                Len(batch.track_list), job.search_result.found_tracks)
              /\ pc' = "done"
         ELSE /\ pc' = "outer_exc"
              /\ UNCHANGED history
    /\ UNCHANGED <<job, batch, task, cache, tokens, calls, env, sync>>

\* lines 267-289: except Exception of the playlist block
JobInnerExcept ==
    /\ pc = "inner_exc"
    /\ \E db_ok \in BOOLEAN :
         IF db_ok
         THEN /\ history' = record_transfer_history(history, "failed", NoUrl,
                                Len(batch.track_list), job.search_result.found_tracks)
              /\ pc' = "done"
              /\ SetProgress(100, "create_failed", NoUrl)
              /\ UNCHANGED job
         ELSE /\ pc' = "outer_exc"
              /\ job' = [job EXCEPT !.history_raised = TRUE]
              /\ UNCHANGED <<PROGRESS, writes, history>>
    /\ UNCHANGED <<batch, task, cache, tokens, calls, env, sync>>

\* JobOuterExcept that swallows the exception without a progress write
JobOuterExcept_Silent ==
    /\ pc = "outer_exc"
    /\ pc' = "done"
    /\ UNCHANGED <<PROGRESS, writes, job, batch, task, cache, tokens, history, calls, env, sync>>

\* lines 291-292: except Exception of the whole function
JobOuterExcept ==
    /\ pc = "outer_exc"
    /\ pc' = "done"
    /\ SetProgress(100, "transfer_failed", NoUrl)
    /\ UNCHANGED <<job, batch, task, cache, tokens, history, calls, env, sync>>

(***************************************************************************)
(* transfer_playlist_async called for a destination platform, without a    *)
(* progress callback                                                       *)
(***************************************************************************)
BatchCall ==
    /\ pc = "idle"
    /\ pc' = "batch"
    /\ \E p \in Platforms :
         batch' = [platform |-> p, callback |-> FALSE, track_list |-> env.playlist,
                   rate_limits |-> InitRateLimits]
    /\ task' = NewTasks(env.playlist)
    /\ UNCHANGED <<PROGRESS, writes, job, cache, tokens, history, calls, env, sync, bucket, callers, lookups, observed>>

BatchReturn ==
    /\ pc = "batch"
    /\ AllDone
    /\ pc' = "returned"
    /\ job' = [job EXCEPT !.search_result = SearchResult(batch.track_list, GatherResults)]
    /\ UNCHANGED <<PROGRESS, writes, batch, task, cache, tokens, history, calls, env, sync, bucket, callers, lookups, observed>>

(***************************************************************************)
(* soundcloud.py: the sequential transfer_to_soundcloud                    *)
(***************************************************************************)
\* the token files a session can have: none, or access and refresh token
StoredBlobs == {[access |-> 0, refresh |-> 0], [access |-> 1, refresh |-> 1]}

\* the statuses to draw for the requests that only follow a 401
AfterA401(status) == IF status = "401" THEN Statuses ELSE {"200"}

\* refresh_soundcloud_token: [token, blob, posts, raised]; token 0 is None
refresh_soundcloud_token(blob, status) ==
    IF blob.access = 0 \/ blob.refresh = 0
    THEN [token |-> 0, blob |-> blob, posts |-> 0, raised |-> FALSE]
    ELSE IF status = "raise"
    THEN [token |-> 0, blob |-> blob, posts |-> 1, raised |-> TRUE]
    ELSE IF status # "200" \/ blob.access > MaxRefresh
    THEN [token |-> 0, blob |-> blob, posts |-> 1, raised |-> FALSE]
    ELSE [token |-> blob.access + 1, blob |-> [blob EXCEPT !.access = @ + 1],
          posts |-> 1, raised |-> FALSE]

\* the scoring loop of soundcloud.search_soundcloud_track: best is
\* [score, it], with it = 0 while best is None
RECURSIVE SyncBest(_, _, _)
SyncBest(wanted, items, best) ==
    IF items = << >> THEN best
    ELSE LET it == Head(items)
             cand == _norm(JoinTA(it.title, it.user))
             score == _score(wanted, cand)
         IN  SyncBest(wanted, Tail(items),
                      IF best.it = 0 \/ ScoreGT(score, best.score)
                      THEN [score |-> score, it |-> it.id + 1] ELSE best)

\* soundcloud.search_soundcloud_track after a 200: the id of the hit + 1
\* (1: a hit without 'id'), or 0 for None
SyncPick(title, artist, items) ==
    LET best == SyncBest(_norm(JoinTA(title, artist)), items, [score |-> ZeroScore, it |-> 0])
    IN  IF items # << >> /\ best.it # 0 /\ ScoreAccepted(best.score) THEN best.it ELSE 0

\* "if not new_access: return None" after the refresh of a 401
GivesUp_Never(new_access) == FALSE
GivesUp(new_access) == new_access = 0

\* soundcloud.search_soundcloud_track: [hit, blob, gets, attempts, refreshes,
\* raised, requests] for the statuses of the v2 request, the refresh, the v2
\* retry and v1; pick is what lines 116-133 return for the body of a 200
\* answer; requests lists the search requests sent, each with the access
\* token of its Authorization header and the status it was answered with;
\* attempts counts the calls of refresh_soundcloud_token and refreshes the
\* POSTs they sent
search_soundcloud_track(blob, pick, v2, refresh, retry, v1) ==
    LET req(endpoint, headers, status) ==
            [endpoint |-> endpoint, token |-> headers, status |-> status]
        out(hit, b, sent, r, raised) ==
            [hit |-> hit, blob |-> b, gets |-> Len(sent),
             attempts |-> IF v2 = "401" /\ blob.access # 0 THEN 1 ELSE 0,
             refreshes |-> r, raised |-> raised, requests |-> sent]
        \* from "if r.status_code != 200: v1 fallback" on, after the requests sent
        rest(b, headers, sent, r) ==
            IF sent[Len(sent)].status = "200"
            THEN out(pick, b, sent, r, FALSE)
            ELSE LET all == Append(sent, req("v1", headers, v1))
                 IN  IF v1 = "raise" THEN out(0, b, all, r, TRUE)
                     ELSE IF v1 = "200" THEN out(pick, b, all, r, FALSE)
                     ELSE out(0, b, all, r, FALSE)
        refreshed == refresh_soundcloud_token(blob, refresh)
        first == <<req("v2", blob.access, v2)>>
    IN  IF blob.access = 0 THEN out(0, blob, << >>, 0, FALSE)
        ELSE IF v2 = "raise" THEN out(0, blob, first, 0, TRUE)
        ELSE IF v2 = "401"
        THEN IF refreshed.raised THEN out(0, blob, first, refreshed.posts, TRUE)
             ELSE IF GivesUp(refreshed.token)
             THEN out(0, blob, first, refreshed.posts, FALSE)
             ELSE LET again == Append(first, req("v2", refreshed.token, retry))
                  IN  IF retry = "raise" THEN out(0, refreshed.blob, again, 1, TRUE)
                      ELSE rest(refreshed.blob, refreshed.token, again, 1)
        ELSE rest(blob, blob.access, first, 0)

\* lines 221-229: the export file is read; without a file the call returns;
\* blobs are the token files the session can have
SyncCalled(blobs) ==
    /\ pc = "idle"
    /\ \E file_exists \in BOOLEAN, blob \in blobs :
         IF file_exists
         THEN /\ pc' = "sync_loop"
              /\ sync' = [sync EXCEPT !.blob = blob, !.pairs = env.playlist]
         ELSE /\ pc' = "sync_returned"
              /\ sync' = [sync EXCEPT !.blob = blob, !.message = "internal_error"]
    /\ UNCHANGED <<PROGRESS, writes, job, batch, task, cache, tokens, history, calls, env>>

SyncCall == SyncCalled(StoredBlobs)

\* what lines 116-133 return for the pair the loop is at
SyncPicked ==
    LET pair == sync.pairs[sync.idx + 1]
    IN  SyncPick(pair.title, pair.artist,
                 Catalogue(env.catalogue, QueryOf(pair.title, pair.artist)))

\* lines 231-240: one iteration of the loop, for the statuses its requests
\* are answered with
SyncSearched(v2, refresh, retry, v1) ==
    /\ LET r == search_soundcloud_track(sync.blob, SyncPicked, v2, refresh, retry, v1)
       IN  /\ pc' = IF r.raised THEN "sync_raised" ELSE "sync_loop"
           /\ sync' = [sync EXCEPT
                  !.blob = r.blob,
                  !.searches = @ + r.gets,
                  !.idx = IF r.raised THEN @ ELSE @ + 1,
                  !.found_ids = IF ~r.raised /\ r.hit > 1 THEN Append(@, r.hit - 1) ELSE @,
                  !.misses = IF ~r.raised /\ r.hit <= 1 THEN @ + 1 ELSE @]
    /\ UNCHANGED <<PROGRESS, writes, job, batch, task, cache, tokens, history, calls, env>>

\* the loop has a pair left
InLoop ==
    /\ pc = "sync_loop"
    /\ sync.idx < Len(sync.pairs)

SyncSearch ==
    /\ InLoop
    /\ \E v2 \in Statuses, v1 \in Statuses :
       \E refresh \in AfterA401(v2), retry \in AfterA401(v2) :
         SyncSearched(v2, refresh, retry, v1)

\* _create_playlist: [created, blob, posts, raised] for the statuses of the
\* JSON POST, the refresh, the repeated JSON POST and the form POST
_create_playlist(blob, post, refresh, repost, form) ==
    LET out(c, b, n, x) == [created |-> c, blob |-> b, posts |-> n, raised |-> x]
        \* from "if r.status_code in (200, 201)" on, with n POSTs sent
        rest(b, status, n) ==
            IF status = "200" THEN out(TRUE, b, n, FALSE)
            ELSE IF form = "raise" THEN out(FALSE, b, n + 1, TRUE)
            ELSE out(form = "200", b, n + 1, FALSE)
        refreshed == refresh_soundcloud_token(blob, refresh)
    IN  IF blob.access = 0 THEN out(FALSE, blob, 0, FALSE)
        ELSE IF post = "raise" THEN out(FALSE, blob, 1, TRUE)
        ELSE IF post = "401"
        THEN IF refreshed.raised THEN out(FALSE, blob, 1, TRUE)
             ELSE IF refreshed.token = 0 THEN out(FALSE, blob, 1, FALSE)
             ELSE IF repost = "raise" THEN out(FALSE, refreshed.blob, 2, TRUE)
             ELSE rest(refreshed.blob, repost, 2)
        ELSE rest(blob, post, 1)

\* lines 242-256: after the loop
SyncFinish ==
    /\ pc = "sync_loop"
    /\ sync.idx = Len(sync.pairs)
    /\ \E post \in Statuses, form \in Statuses :
       \E refresh \in AfterA401(post), repost \in AfterA401(post) :
         LET c == _create_playlist(sync.blob, post, refresh, repost, form)
         IN  IF sync.found_ids = << >>
             THEN /\ pc' = "sync_returned"
                  /\ sync' = [sync EXCEPT !.message = "no_match"]
             ELSE /\ pc' = IF c.raised THEN "sync_raised" ELSE "sync_returned"
                  /\ sync' = [sync EXCEPT
                         !.blob = c.blob,
                         !.creates = @ + c.posts,
                         !.message = IF c.raised THEN @
                                     ELSE IF c.created THEN "transferred" ELSE "create_failed"]
    /\ UNCHANGED <<PROGRESS, writes, job, batch, task, cache, tokens, history, calls, env>>

SyncStep ==
    /\ \/ SyncCall
       \/ SyncSearch
       \/ SyncFinish
    /\ UNCHANGED <<bucket, callers, lookups, observed>>

(***************************************************************************)
(* spotify.py: transfer_to_spotify. sync holds its locals (pairs: the      *)
(* track lines, found_ids: found, misses: len(not_found)) and calls counts *)
(* the calls of sp.search, sp.user_playlist_create and                     *)
(* sp.playlist_add_items                                                   *)
(***************************************************************************)
\* lines 11-34: the file test, the client, current_user and the track lines
SpotifyCall ==
    /\ pc = "idle"
    /\ \E file_exists \in BOOLEAN, user_ok \in BOOLEAN :
         IF ~file_exists
         THEN /\ pc' = "sp_returned"
              /\ sync' = [sync EXCEPT !.message = "file_not_found"]
         ELSE IF ~user_ok
         THEN /\ pc' = "sp_raised"
              /\ UNCHANGED sync
         ELSE /\ pc' = "sp_create"
              /\ sync' = [sync EXCEPT !.pairs = env.playlist]
    /\ UNCHANGED <<PROGRESS, writes, job, batch, task, cache, tokens, history, calls, env>>

\* lines 36-56: sp.user_playlist_create; the upload of the image is inside
\* a try that swallows its exception
SpotifyCreate ==
    /\ pc = "sp_create"
    /\ calls' = [calls EXCEPT !.create = @ + 1]
    /\ \E created \in BOOLEAN :
         pc' = IF created THEN "sp_loop" ELSE "sp_raised"
    /\ UNCHANGED <<PROGRESS, writes, job, batch, task, cache, tokens, history, env, sync>>

\* result["tracks"]["items"] of sp.search(q=query, type="track", limit=1)
SpotifyItems(line) ==
    LET all == Catalogue(env.catalogue, QueryOf(line.title, line.artist))
    IN  IF all = << >> THEN << >> ELSE <<Head(all)>>

\* lines 61-76: one iteration of the loop; a search that raises is a line
\* not found
SpotifySearch ==
    /\ pc = "sp_loop"
    /\ sync.idx < Len(sync.pairs)
    /\ calls' = [calls EXCEPT !.search = @ + 1]
    /\ \E answered \in BOOLEAN :
         LET items == SpotifyItems(sync.pairs[sync.idx + 1])
         IN  sync' = [sync EXCEPT
                 !.idx = @ + 1,
                 !.found_ids = IF answered /\ items # << >>
                               THEN Append(@, items[1].id) ELSE @,
                 !.misses = IF answered /\ items # << >> THEN @ ELSE @ + 1]
    /\ UNCHANGED <<PROGRESS, writes, job, batch, task, cache, tokens, history, env, pc>>

\* lines 78-95: sp.playlist_add_items for each chunk of 100 ids (at most one
\* chunk here), the skipped file, the clean-up and the message
SpotifyFinish ==
    /\ pc = "sp_loop"
    /\ sync.idx = Len(sync.pairs)
    /\ \E added \in BOOLEAN :
         IF sync.found_ids = << >>
         THEN /\ pc' = "sp_returned"
              /\ sync' = [sync EXCEPT !.message = "transfer_complete"]
              /\ UNCHANGED calls
         ELSE /\ calls' = [calls EXCEPT !.attach = @ + 1]
              /\ pc' = IF added THEN "sp_returned" ELSE "sp_raised"
              /\ sync' = [sync EXCEPT !.message = IF added THEN "transfer_complete" ELSE @]
    /\ UNCHANGED <<PROGRESS, writes, job, batch, task, cache, tokens, history, env>>

SpotifyStep ==
    /\ \/ SpotifyCall
       \/ SpotifySearch
       \/ SpotifyCreate
       \/ SpotifyFinish
    /\ UNCHANGED <<bucket, callers, lookups, observed>>

(***************************************************************************)
(* token_manager.py: get_*_token as its callers run it. Every caller is a  *)
(* coroutine of the one event loop, and the lookup is synchronous code     *)
(***************************************************************************)
\* the lookup goes on to _refresh_*_token
NeedsRefresh(rec) == rec.access # 0 /\ rec.expires # "future" /\ rec.refresh # 0

\* ThreadFree for a refresh that would suspend its coroutine
ThreadFree_Always == TRUE

\* requests.post blocks the thread of the event loop until it is answered:
\* no other coroutine runs while a refresh request is out
ThreadFree == \A c \in LookupCallers : lookups[c].pc # "posting"

\* a caller calls get_*_token: the record is read and either the lookup
\* returns or the refresh request is sent
LookupBegin(c, p) ==
    /\ lookups[c].pc = "idle"
    /\ ThreadFree
    /\ \E passed \in BOOLEAN :
         LET rec == AtLookup(tokens[p], passed)
         IN  /\ tokens' = [tokens EXCEPT ![p] = rec]
             /\ lookups' = [lookups EXCEPT ![c] =
                    IF NeedsRefresh(rec)
                    THEN [pc |-> "posting", platform |-> p, sent |-> rec.refresh, token |-> -1]
                    ELSE [pc |-> "done", platform |-> p, sent |-> 0,
                          token |-> get_token(p, rec, "fail").token]]
    /\ UNCHANGED <<jobvars, bucket, callers>>

\* the refresh request is answered: save_*_token, and the lookup returns
LookupEnd(c) ==
    /\ lookups[c].pc = "posting"
    /\ \E outcome \in RefreshOutcomes :
         LET p == lookups[c].platform
             g == get_token(p, tokens[p], outcome)
         IN  /\ tokens' = [tokens EXCEPT ![p] = g.rec]
             /\ lookups' = [lookups EXCEPT ![c].pc = "done", ![c].token = g.token]
    /\ UNCHANGED <<jobvars, bucket, callers>>

\* the caller has used what the lookup returned
LookupReturn(c) ==
    /\ lookups[c].pc = "done"
    /\ lookups' = [lookups EXCEPT ![c] = IdleLookup]
    /\ UNCHANGED <<jobvars, tokens, bucket, callers>>

(***************************************************************************)
(* rate_limiting.py: callers of the RateLimiter and the passing of time    *)
(***************************************************************************)
\* a caller calls can_make_request, at once or when its sleep is over
LimiterCheck(c) ==
    /\ callers[c].pc \in {"idle", "sleeping"}
    /\ callers[c].wait = 0
    /\ LET r == can_make_request(bucket, TRUE)
       IN  /\ bucket' = r.bucket
           /\ callers' = [callers EXCEPT ![c] =
                  IF r.allowed THEN [pc |-> "allowed", wait |-> 0]
                  ELSE [pc |-> "sleeping", wait |-> r.wait_time * TicksPerSecond]]
    /\ UNCHANGED <<jobvars, tokens, lookups>>

\* a caller that was allowed sends its request and calls consume_request
LimiterConsume(c) ==
    /\ callers[c].pc = "allowed"
    /\ bucket' = consume_request(bucket)
    /\ callers' = [callers EXCEPT ![c] = IdleCaller]
    /\ UNCHANGED <<jobvars, tokens, lookups>>

\* a caller that was allowed sends nothing
LimiterAbandon(c) ==
    /\ callers[c].pc = "allowed"
    /\ callers' = [callers EXCEPT ![c] = IdleCaller]
    /\ UNCHANGED <<jobvars, tokens, lookups, bucket>>

\* one tick of time passes
Older(requests_queue) ==
    [k \in DOMAIN requests_queue |-> Min(AgeCap, requests_queue[k] + 1)]

LimiterTick ==
    /\ bucket' = [bucket EXCEPT
                     !.last_refill = IF bucket.used THEN Min(RefillCap, @ + 1) ELSE @,
                     !.minute_requests = Older(@),
                     !.hour_requests = Older(@)]
    /\ callers' = [c \in Callers |-> [callers[c] EXCEPT !.wait = Max(0, @ - 1)]]
    /\ UNCHANGED <<jobvars, tokens, lookups>>

(***************************************************************************)
(* Specification                                                           *)
(***************************************************************************)
(***************************************************************************)
(* main.py: POST /transfer/spotify-to-soundcloud                           *)
(***************************************************************************)
\* "open.spotify.com/playlist/"
PlaylistMarker ==
    <<"o", "p", "e", "n", ".", "s", "p", "o", "t", "i", "f", "y", ".", "c",
      "o", "m", "/", "p", "l", "a", "y", "l", "i", "s", "t", "/">>

\* needle in haystack, on strings
Contains(haystack, needle) ==
    \E k \in 0..(Len(haystack) - Len(needle)) :
        SubSeq(haystack, k + 1, k + Len(needle)) = needle

\* the values of the form field spotify_url
FormUrls ==
    { << >>,
      PlaylistMarker,
      <<"h", "t", "t", "p", "s", ":", "/", "/">> \o PlaylistMarker \o <<"p", "1">>,
      <<"x", "?", "u", "=">> \o PlaylistMarker,
      SubSeq(PlaylistMarker, 1, Len(PlaylistMarker) - 1),
      <<"h", "t", "t", "p", "s", ":", "/", "/", "o", "p", "e", "n", ".",
        "s", "p", "o", "t", "i", "f", "y", ".", "c", "o", "m", "/", "a",
        "l", "b", "u", "m", "/", "p", "1">>,
      <<"h", "t", "t", "p", "s", ":", "/", "/", "s", "o", "u", "n", "d",
        "c", "l", "o", "u", "d", ".", "c", "o", "m", "/", "u", "/", "s",
        "e", "t", "s", "/", "p", "1">> }

\* ValidUrl that lets every URL through
ValidUrl_Any(spotify_url) == TRUE

\* the test of line 436, negated
ValidUrl(spotify_url) == Contains(spotify_url, PlaylistMarker)

\* what the handler did with a request: the form field, the get_*_token
\* calls it made, and the response it returned
Handled(spotify_url, lookups_made, response) ==
    [kind |-> "request", spotify_url |-> spotify_url, lookups |-> lookups_made,
     response |-> response]

\* the handler, from the request to the response; the job it schedules
\* starts at JobStart
spotify_to_soundcloud ==
    /\ pc = "idle"
    /\ \E spotify_url \in FormUrls, db_fail \in {"none", "first", "second"},
          passed1 \in BOOLEAN, passed2 \in BOOLEAN,
          o1 \in RefreshOutcomes, o2 \in RefreshOutcomes :
         LET g1 == get_spotify_token(AtLookup(tokens.spotify, passed1), o1)
             g2 == get_soundcloud_token(AtLookup(tokens.soundcloud, passed2), o2)
             k == Cost(db_fail = "none") + Cost(o1 # "fail") + Cost(o2 # "fail")
         IN  IF ~ValidUrl(spotify_url)
             THEN /\ pc' = "rejected"
                  /\ observed' = Handled(spotify_url, 0, "invalid_url")
                  /\ UNCHANGED <<PROGRESS, tokens, env>>
             ELSE /\ Affordable(k)
                  /\ env' = Spend(k)
                  /\ CASE db_fail = "first" ->
                            /\ pc' = "handler_raised"
                            /\ observed' = Handled(spotify_url, 1, "error")
                            /\ UNCHANGED <<PROGRESS, tokens>>
                       [] db_fail = "second" ->
                            /\ pc' = "handler_raised"
                            /\ observed' = Handled(spotify_url, 2, "error")
                            /\ tokens' = [tokens EXCEPT !.spotify = g1.rec]
                            /\ UNCHANGED PROGRESS
                       [] OTHER ->
                            /\ tokens' = [spotify |-> g1.rec, soundcloud |-> g2.rec]
                            /\ IF AuthVerdict(g1.token, g2.token) # "ok"
                               THEN /\ pc' = "redirected"
                                    /\ observed' = Handled(spotify_url, 2,
                                                           AuthVerdict(g1.token, g2.token))
                                    /\ UNCHANGED PROGRESS
                               ELSE /\ pc' = "queued"
                                    /\ observed' = Handled(spotify_url, 2, "status")
                                    /\ PROGRESS' = [percent |-> ClampPercent(0),
                                                    message |-> "queued", url |-> NoUrl]
    /\ UNCHANGED <<writes, job, batch, task, cache, history, calls, sync,
                   bucket, callers, lookups>>

\* the job the handler scheduled for the session has not returned
JobRunning ==
    pc \in {"queued", "auth", "fetch", "found", "searching", "create", "attach",
            "inner_exc", "outer_exc"}

\* a second run of run_spotify_to_soundcloud_async for the session: the
\* percent it wrote last (0: it has not started)
OtherJob(last) == [kind |-> "other_job", last |-> last]
OtherJobRunning == observed.kind = "other_job" /\ observed.last # 100

\* the handler called again for the session while its job has not returned:
\* the same code; when it queues, add_task schedules a second run
SubmitAgain ==
    /\ JobRunning
    /\ observed.kind = "request"
    /\ \E spotify_url \in FormUrls, db_fail \in {"none", "first", "second"},
          passed1 \in BOOLEAN, passed2 \in BOOLEAN,
          o1 \in RefreshOutcomes, o2 \in RefreshOutcomes :
         LET g1 == get_spotify_token(AtLookup(tokens.spotify, passed1), o1)
             g2 == get_soundcloud_token(AtLookup(tokens.soundcloud, passed2), o2)
             k == Cost(db_fail = "none") + Cost(o1 # "fail") + Cost(o2 # "fail")
         IN  IF ~ValidUrl(spotify_url)
             THEN UNCHANGED <<PROGRESS, tokens, env, observed>>
             ELSE /\ Affordable(k)
                  /\ env' = Spend(k)
                  /\ CASE db_fail = "first" ->
                            UNCHANGED <<PROGRESS, tokens, observed>>
                       [] db_fail = "second" ->
                            /\ tokens' = [tokens EXCEPT !.spotify = g1.rec]
                            /\ UNCHANGED <<PROGRESS, observed>>
                       [] OTHER ->
                            /\ tokens' = [spotify |-> g1.rec, soundcloud |-> g2.rec]
                            /\ IF AuthVerdict(g1.token, g2.token) # "ok"
                               THEN UNCHANGED <<PROGRESS, observed>>
                               ELSE /\ observed' = OtherJob(0)
                                    /\ PROGRESS' = [percent |-> ClampPercent(0),
                                                    message |-> "queued", url |-> NoUrl]
    /\ UNCHANGED <<pc, writes, job, batch, task, cache, history, calls, sync,
                   bucket, callers, lookups>>

\* the percents a run of run_spotify_to_soundcloud_async on a playlist of
\* one track can pass to set_progress next, after the percent it wrote last
WritesAfter(last) ==
    CASE last = 0 -> {5}
      [] last = 5 -> {10, 100}
      [] last = 10 -> {20, 100}
      [] last = 20 -> {25}
      [] last = 25 -> {CallbackPercent(1, 1), 100}
      [] last = CallbackPercent(1, 1) -> {85, 100}
      [] last = 85 -> {90, 100}
      [] last = 90 -> {100}
      [] OTHER -> {}

\* the second run writes its next progress record
OtherJobWrite ==
    /\ observed.kind = "other_job"
    /\ \E percent \in WritesAfter(observed.last) :
         /\ SetProgress(percent, "other_job", NoUrl)
         /\ observed' = OtherJob(percent)
    /\ UNCHANGED <<pc, job, batch, task, cache, tokens, history, calls, env, sync,
                   bucket, callers, lookups>>

(***************************************************************************)
(* The resolutions with their requests observed: observed.headers[j] is    *)
(* the access token of the `headers` local of task j (0 before it is       *)
(* built), and task, endpoint and status tell the last answer              *)
(***************************************************************************)
HeadersOf(j) == IF observed.kind = "exchange" THEN observed.headers[j] ELSE 0

\* task i ran from the semaphore or from its sleep to its first request:
\* headers holds the token get_*_token returned (lines 120-122, 183-186)
ObserveSend(i) ==
    observed' = [kind |-> "exchange", task |-> i, endpoint |-> "-", status |-> "-",
                 refreshes |-> 0,
                 headers |-> [j \in DOMAIN task |->
                                IF j = i /\ task'[i].pc = "v2"
                                THEN tokens'[batch.platform].access
                                ELSE HeadersOf(j)]]

\* task i got status from endpoint: neither search method calls the token
\* manager after its request, and the fallback request is sent with the
\* headers of the first (line 199)
ObserveAnswer(i, endpoint, status) ==
    observed' = [kind |-> "exchange", task |-> i, endpoint |-> endpoint, status |-> status,
                 refreshes |-> 0,
                 headers |-> [j \in DOMAIN task |-> HeadersOf(j)]]

ObservedTaskStep ==
    \/ \E i \in DOMAIN task : TaskStart(i) /\ ObserveSend(i)
    \/ \E i \in DOMAIN task : TaskWake(i) /\ ObserveSend(i)
    \/ \E i \in DOMAIN task :
         /\ Awaits(i, "v2")
         /\ \E status \in Statuses, commit_ok \in BOOLEAN :
              V2Answered(i, status, commit_ok) /\ ObserveAnswer(i, "v2", status)
    \/ \E i \in DOMAIN task :
         /\ Awaits(i, "v1")
         /\ \E status \in Statuses, commit_ok \in BOOLEAN :
              V1Answered(i, status, commit_ok) /\ ObserveAnswer(i, "v1", status)

\* one iteration of the loop of transfer_to_soundcloud with the requests of
\* its search_soundcloud_track call
ObservedSyncSearch ==
    /\ InLoop
    /\ \E v2 \in Statuses, v1 \in Statuses :
       \E refresh \in AfterA401(v2), retry \in AfterA401(v2) :
         LET r == search_soundcloud_track(sync.blob, SyncPicked, v2, refresh, retry, v1)
         IN  /\ SyncSearched(v2, refresh, retry, v1)
             /\ observed' = [kind |-> "sync", track |-> sync.pairs[sync.idx + 1],
                             hit |-> r.hit, requests |-> r.requests,
                             attempts |-> r.attempts, refreshes |-> r.refreshes,
                             raised |-> r.raised, stored |-> sync.blob.access,
                             saved |-> r.blob.access]

\* a token file whose blob has an access token and no refresh token
NoRefreshBlob == [access |-> 1, refresh |-> 0]

ObservedSyncStep ==
    \/ SyncCalled(StoredBlobs \cup {NoRefreshBlob}) /\ UNCHANGED observed
    \/ ObservedSyncSearch
    \/ SyncFinish /\ UNCHANGED observed

JobStep ==
    /\ \/ JobStart
       \/ JobAuth
       \/ JobFetch
       \/ JobSearch
       \/ JobCollect
       \/ JobCreate
       \/ JobAttach
       \/ JobInnerExcept
       \/ JobOuterExcept
    /\ UNCHANGED <<bucket, callers, lookups, observed>>

TaskStep ==
    /\ \/ \E i \in DOMAIN task : TaskStart(i)
       \/ \E i \in DOMAIN task : TaskWake(i)
       \/ \E i \in DOMAIN task : TaskV2Response(i)
       \/ \E i \in DOMAIN task : TaskV1Response(i)
    /\ UNCHANGED <<bucket, callers, lookups, observed>>

Next ==
    \/ JobStep
    \/ TaskStep
    \/ BatchCall
    \/ BatchReturn
    \/ SyncStep

Spec == Init /\ [][Next]_vars

\* the job with the fairness of its scheduling: the event loop runs every
\* task that can run, and every external call returns or raises
LiveNext ==
    \/ JobStep
    \/ TaskStep

LiveSpec == Init /\ [][LiveNext]_vars /\ WF_vars(JobStep) /\ WF_vars(TaskStep)

\* transfer_playlist_async on a playlist one longer than the semaphore
BatchInit ==
    /\ InitCommon
    /\ tokens = [p \in Platforms |-> [access |-> 1, refresh |-> 1, expires |-> "future"]]
    /\ env = [playlist |-> BatchPlaylist, catalogue |-> "all", faults |-> MaxFaults]

BatchNext ==
    \/ BatchCall
    \/ BatchReturn
    \/ TaskStep

SpecBatch == BatchInit /\ [][BatchNext]_vars

\* batch_search_tracks on two tracks whose queries normalise to the same
\* string, with a cache that is empty or holds a row an earlier transfer
\* wrote for TrackA more than 3600 seconds ago
CachePlaylist == <<TrackA, TrackC>>
OldRow(platform) ==
    [query |-> Queries[TrackA], platform |-> platform, id |-> CandGood.id,
     title |-> CandGood.title, artist |-> CandGood.user,
     match_score |-> Frac(1, 1), age |-> "old"]

CacheInit ==
    /\ pc = "idle"
    /\ PROGRESS = [percent |-> 0, message |-> "waiting", url |-> NoUrl]
    /\ writes = [n |-> 0, hundreds |-> 0]
    /\ job = InitJob
    /\ batch = IdleBatch
    /\ task = << >>
    /\ cache \in {<< >>} \cup {<<OldRow(p)>> : p \in Platforms}
    /\ history = << >>
    /\ calls = [fetch |-> 0, search |-> 0, create |-> 0, attach |-> 0]
    /\ sync = InitSync
    /\ bucket = NewBucket
    /\ callers = [c \in Callers |-> IdleCaller]
    /\ lookups = [c \in LookupCallers |-> IdleLookup]
    /\ observed = Unobserved
    /\ tokens = [p \in Platforms |-> [access |-> 1, refresh |-> 1, expires |-> "future"]]
    /\ env = [playlist |-> CachePlaylist, catalogue |-> "all", faults |-> MaxFaults]

SpecCache == CacheInit /\ [][BatchNext]_vars

\* both search paths with their requests observed: a batch of resolutions
\* for either platform, or the sequential transfer
ObservedInit ==
    /\ InitCommon
    /\ tokens = [p \in Platforms |-> [access |-> 1, refresh |-> 1, expires |-> "future"]]
    /\ env \in [playlist : {<<TrackA>>, <<TrackA, TrackB>>, <<TrackA, TrackA>>},
                catalogue : CatalogueNames, faults : {MaxFaults}]

ObservedNext ==
    \/ BatchCall
    \/ BatchReturn
    \/ ObservedTaskStep /\ UNCHANGED <<bucket, callers, lookups>>
    \/ ObservedSyncStep /\ UNCHANGED <<bucket, callers, lookups>>

SpecObserved == ObservedInit /\ [][ObservedNext]_vars

\* the functions of the matcher applied to inputs: strings put together
\* from at most MaxPieces pieces, pairs of a string of at most MaxPairPieces
\* + 1 and one of at most MaxPairPieces pieces, and responses of at most MaxItems candidates for a track
MaxPieces == 5
MaxPairPieces == 2
MaxItems == 2

\* a word, a stoplist word, whitespace, punctuation and an upper-case word
Pieces == {<<"a">>, <<"f", "t">>, <<" ">>, <<"!">>, <<"B">>}

RECURSIVE Texts(_)
Texts(n) ==
    IF n = 0 THEN {<< >>}
    ELSE LET shorter == Texts(n - 1)
         IN  shorter \cup {p \o t : p \in Pieces, t \in shorter}

\* the inputs for strings of at most n pieces, pairs of at most m + 1 and m
\* pieces, and responses of at most k items
PureInputs(n, m, k) ==
    {[kind |-> "text", a |-> a, b |-> << >>] : a \in Texts(n)}
    \cup {[kind |-> "text", a |-> a, b |-> b] : a \in Texts(m + 1), b \in Texts(m)}
    \cup {[kind |-> "response", track |-> t, items |-> items] :
            t \in AllTracks, items \in SeqsUpTo(Candidates, k)}

\* how far, in halves of a percent, the percent arguments go beyond 0, 50
\* and 100
PercentMargin == 3

\* a percent argument of set_progress, as the number halves / 2, for a
\* session that has a record (written) or has none
PercentInputs(margin) ==
    {[kind |-> "percent", halves |-> h, written |-> w] :
        h \in ((0 - margin)..margin) \cup ((100 - margin)..(100 + margin))
              \cup ((200 - margin)..(200 + margin)),
        w \in BOOLEAN}

\* main.set_progress: the percent it stores for the argument halves / 2
main_set_progress(halves) == Frac(ClampPercent(IntOf(halves, 2)), 1)

\* helpers.set_progress: the percent it stores for the argument halves / 2
helpers_set_progress(halves) ==
    IF halves < 0 THEN Frac(0, 1)
    ELSE IF halves > 200 THEN Frac(100, 1)
    ELSE Frac(halves, 2)

\* PROGRESS.get(session_id, {"percent": 0, ...}) and
\* _PROGRESS.get(session_id, {"percent": 0, ...}): the percent returned
get_progress(written, stored) == IF written THEN stored ELSE Frac(0, 1)

PureInit ==
    /\ InitIdle
    /\ tokens = [p \in Platforms |-> NoToken]
    /\ env = [playlist |-> << >>, catalogue |-> "none", faults |-> Unlimited]
    /\ observed \in PureInputs(MaxPieces, MaxPairPieces, MaxItems)
                     \cup PercentInputs(PercentMargin)

\* _normalize_string and _norm applied once and twice
Normalize ==
    /\ observed.kind = "text"
    /\ observed' = [kind |-> "normalized", a |-> observed.a,
                    once |-> _normalize_string(observed.a),
                    twice |-> _normalize_string(_normalize_string(observed.a)),
                    sync_once |-> _norm(observed.a),
                    sync_twice |-> _norm(_norm(observed.a))]
    /\ UNCHANGED <<pc, PROGRESS, writes, job, batch, task, cache, tokens, history, calls,
                   env, sync, bucket, callers, lookups>>

\* _calculate_match_score and _score applied both ways round and to (a, a)
Score ==
    /\ observed.kind = "text"
    /\ observed' = [kind |-> "scored", a |-> observed.a, b |-> observed.b,
                    ab |-> _calculate_match_score(observed.a, observed.b),
                    ba |-> _calculate_match_score(observed.b, observed.a),
                    aa |-> _calculate_match_score(observed.a, observed.a),
                    normalized |-> _normalize_string(observed.a),
                    sync_ab |-> _score(observed.a, observed.b),
                    sync_ba |-> _score(observed.b, observed.a),
                    sync_aa |-> _score(_norm(observed.a), _norm(observed.a))]
    /\ UNCHANGED <<pc, PROGRESS, writes, job, batch, task, cache, tokens, history, calls,
                   env, sync, bucket, callers, lookups>>

\* the best-match loops of AsyncTrackSearcher.search_soundcloud_track and of
\* soundcloud.search_soundcloud_track applied to the items of a response
Pick ==
    /\ observed.kind = "response"
    /\ observed' = [kind |-> "picked", track |-> observed.track, items |-> observed.items,
                    best |-> ScanResponse("soundcloud", Queries[observed.track],
                                          observed.items),
                    hit |-> SyncPick(observed.track.title, observed.track.artist,
                                     observed.items)]
    /\ UNCHANGED <<pc, PROGRESS, writes, job, batch, task, cache, tokens, history, calls,
                   env, sync, bucket, callers, lookups>>

\* set_progress of main.py and of helpers.py applied to the argument when
\* the session is written, and the record the session's reader gets
Store ==
    /\ observed.kind = "percent"
    /\ observed' = [kind |-> "stored", halves |-> observed.halves,
                    written |-> observed.written,
                    main |-> get_progress(observed.written,
                                          main_set_progress(observed.halves)),
                    helpers |-> get_progress(observed.written,
                                             helpers_set_progress(observed.halves))]
    /\ UNCHANGED <<pc, PROGRESS, writes, job, batch, task, cache, tokens, history, calls,
                   env, sync, bucket, callers, lookups>>

PureNext ==
    \/ Normalize
    \/ Score
    \/ Pick
    \/ Store

SpecPure == PureInit /\ [][PureNext]_vars

\* a transfer requested over POST /transfer/spotify-to-soundcloud, and the
\* job the handler schedules
EndpointInit ==
    /\ InitCommon
    /\ tokens \in [Platforms -> StoredTokens]
    /\ env \in [playlist : {<<TrackA>>, <<TrackA, TrackB>>}, catalogue : CatalogueNames,
                faults : {MaxFaults}]

EndpointNext ==
    \/ spotify_to_soundcloud
    \/ JobStep
    \/ TaskStep

SpecEndpoint == EndpointInit /\ [][EndpointNext]_vars

(***************************************************************************)
(* error_handling.py: RetryManager.retry_operation. observed holds the     *)
(* call: attempt is the loop variable, trail what each invocation of the   *)
(* operation returned or raised, sleeps the delays slept                   *)
(***************************************************************************)
\* the largest max_retries and base_delay a RetryManager is built with
MaxRetries == 3
MaxBaseDelay == 2

\* what the operation can raise, and what it can return
Errors == {"e1", "e2"}
Values == {"r1", "r2"}

RECURSIVE Pow2(_)
Pow2(n) == IF n = 0 THEN 1 ELSE 2 * Pow2(n - 1)

\* ShouldSleep that sleeps after the last attempt too
ShouldSleep_Always(attempt, max_retries) == TRUE

\* if attempt < self.max_retries
ShouldSleep(attempt, max_retries) == attempt < max_retries

\* retry_operation is called on a manager built with max_retries and
\* base_delay; attempt = 0 is the first value of the for
RetryCall ==
    /\ observed.kind = "none"
    /\ \E max_retries \in 0..MaxRetries, base_delay \in 1..MaxBaseDelay :
         observed' = [kind |-> "retry", max_retries |-> max_retries,
                      base_delay |-> base_delay, attempt |-> 0, state |-> "invoke",
                      trail |-> << >>, sleeps |-> << >>, last_error |-> "-",
                      result |-> "-", raised |-> "-"]
    /\ UNCHANGED <<pc, PROGRESS, writes, job, batch, task, cache, tokens, history, calls,
                   env, sync, bucket, callers, lookups>>

\* the for has run out: raise last_error
RetryExhausted(call) == [call EXCEPT !.state = "raised", !.raised = call.last_error]

\* one pass of the body: await operation(...), which returns or raises;
\* after an exception the body sleeps, or the for is over
RetryInvoke ==
    /\ observed.kind = "retry"
    /\ observed.state = "invoke"
    /\ \E outcome \in Errors \cup Values :
         LET called == [observed EXCEPT !.trail = Append(@, outcome)]
             failed == [called EXCEPT !.last_error = outcome]
         IN  observed' =
               IF outcome \in Values
               THEN [called EXCEPT !.state = "returned", !.result = outcome]
               ELSE IF ShouldSleep(observed.attempt, observed.max_retries)
               THEN [failed EXCEPT !.state = "sleeping",
                                   !.sleeps = Append(@, observed.base_delay
                                                          * Pow2(observed.attempt))]
               ELSE IF observed.attempt + 1 <= observed.max_retries
               THEN [failed EXCEPT !.attempt = @ + 1]
               ELSE RetryExhausted(failed)
    /\ UNCHANGED <<pc, PROGRESS, writes, job, batch, task, cache, tokens, history, calls,
                   env, sync, bucket, callers, lookups>>

\* asyncio.sleep(delay) is over: the for takes its next value, or is over
RetryWake ==
    /\ observed.kind = "retry"
    /\ observed.state = "sleeping"
    /\ observed' =
          IF observed.attempt + 1 <= observed.max_retries
          THEN [observed EXCEPT !.attempt = @ + 1, !.state = "invoke"]
          ELSE RetryExhausted(observed)
    /\ UNCHANGED <<pc, PROGRESS, writes, job, batch, task, cache, tokens, history, calls,
                   env, sync, bucket, callers, lookups>>

RetryNext ==
    \/ RetryCall
    \/ RetryInvoke
    \/ RetryWake

\* no transfer runs and no call of retry_operation has been made
RetryInit ==
    /\ InitCommon
    /\ tokens = [p \in Platforms |-> NoToken]
    /\ env = [playlist |-> << >>, catalogue |-> "none", faults |-> Unlimited]

SpecRetry == RetryInit /\ [][RetryNext]_vars

\* transfer_to_spotify on every export file of at most MaxTracks lines
SpotifyInit ==
    /\ InitCommon
    /\ tokens = [p \in Platforms |-> NoToken]
    /\ env \in [playlist : Playlists, catalogue : CatalogueNames, faults : {Unlimited}]

SpecSpotify == SpotifyInit /\ [][SpotifyStep]_vars

\* the handler called for a session that has both tokens, and called again
\* while the job of the first call has not returned
SubmitInit ==
    /\ InitCommon
    /\ tokens = [p \in Platforms |-> [access |-> 1, refresh |-> 1, expires |-> "future"]]
    /\ env = [playlist |-> <<TrackA>>, catalogue |-> "all", faults |-> MaxFaults]

SubmitNext ==
    \/ spotify_to_soundcloud
    \/ SubmitAgain
    \/ OtherJobWrite
    \/ JobStep
    \/ TaskStep

SpecSubmit == SubmitInit /\ [][SubmitNext]_vars

\* the request handler and two resolutions looking up the tokens of one
\* session
RefreshInit ==
    /\ InitCommon
    /\ tokens \in [Platforms -> StoredTokens]
    /\ env = [playlist |-> << >>, catalogue |-> "none", faults |-> Unlimited]

RefreshNext ==
    \/ \E c \in LookupCallers, p \in Platforms : LookupBegin(c, p)
    \/ \E c \in LookupCallers : LookupEnd(c)
    \/ \E c \in LookupCallers : LookupReturn(c)

SpecRefresh == RefreshInit /\ [][RefreshNext]_vars

\* the RateLimiter with its callers, each of which consumes only after its
\* own can_make_request returned allowed
LimiterNext ==
    \/ \E c \in Callers : LimiterCheck(c)
    \/ \E c \in Callers : LimiterConsume(c)
    \/ \E c \in Callers : LimiterAbandon(c)
    \/ LimiterTick

\* no transfer runs: a key nobody has used yet
LimiterInit ==
    /\ InitCommon
    /\ tokens = [p \in Platforms |-> NoToken]
    /\ env = [playlist |-> << >>, catalogue |-> "none", faults |-> Unlimited]

SpecLimiter == LimiterInit /\ [][LimiterNext]_vars

\* sequential use of the key: can_make_request is not called between an
\* allowed can_make_request and the consume_request that follows it
SequentialCheck(c) ==
    /\ \A d \in Callers : callers[d].pc # "allowed"
    /\ LimiterCheck(c)

SequentialNext ==
    \/ \E c \in Callers : SequentialCheck(c)
    \/ \E c \in Callers : LimiterConsume(c)
    \/ \E c \in Callers : LimiterAbandon(c)
    \/ LimiterTick

SpecSequential == LimiterInit /\ [][SequentialNext]_vars

\* callers that only poll can_make_request: time passes, and a caller whose
\* sleep is over calls again
PollNext ==
    \/ \E c \in Callers : LimiterCheck(c)
    \/ \E c \in Callers : LimiterAbandon(c)
    \/ LimiterTick

\* the bucket of a key nobody has used, or as consume_request calls made
\* just now have left it
PolledBuckets ==
    {NewBucket,
     [tokens |-> 0, last_refill |-> 0, minute_requests |-> <<0>>,
      hour_requests |-> <<0>>, used |-> TRUE],
     [tokens |-> -1, last_refill |-> 0, minute_requests |-> <<0, 0>>,
      hour_requests |-> <<0, 0>>, used |-> TRUE]}

PollInit ==
    /\ pc = "idle"
    /\ PROGRESS = [percent |-> 0, message |-> "waiting", url |-> NoUrl]
    /\ writes = [n |-> 0, hundreds |-> 0]
    /\ job = InitJob
    /\ batch = IdleBatch
    /\ task = << >>
    /\ cache = << >>
    /\ history = << >>
    /\ calls = [fetch |-> 0, search |-> 0, create |-> 0, attach |-> 0]
    /\ sync = InitSync
    /\ bucket \in PolledBuckets
    /\ callers = [c \in Callers |-> IdleCaller]
    /\ lookups = [c \in LookupCallers |-> IdleLookup]
    /\ observed = Unobserved
    /\ tokens = [p \in Platforms |-> NoToken]
    /\ env = [playlist |-> << >>, catalogue |-> "none", faults |-> Unlimited]

LiveLimiter ==
    /\ PollInit
    /\ [][PollNext]_vars
    /\ WF_vars(LimiterTick)
    /\ \A c \in Callers : WF_vars(LimiterCheck(c)) /\ WF_vars(LimiterAbandon(c))

(***************************************************************************)
(* Properties                                                              *)
(***************************************************************************)
\* the tracks whose resolution returned an accepted match
Matched == {i \in DOMAIN task : task[i].result.kind = "match"}

\* C1: during one run of run_spotify_to_soundcloud_async the percent values
\* written to the progress record never decrease, whatever the order in
\* which the resolutions complete
C1_PercentNonDecreasing ==
    [][writes.n >= 1 => PROGRESS'.percent >= PROGRESS.percent]_vars

\* C2: every started run of run_spotify_to_soundcloud_async eventually
\* writes percent 100, on every path
C2_ReachesHundred == (pc = "auth") ~> (writes.hundreds >= 1 /\ PROGRESS.percent = 100)

\* a run that ended in the outer exception handler after the history write
\* of the inner one failed
C2_Witness ==
    /\ pc = "done"
    /\ PROGRESS.message = "transfer_failed"
    /\ calls.create = 1
    /\ writes.hundreds = 1

\* C3: one run writes percent 100 exactly once, and writes nothing after it
C3_HundredOnce ==
    [][/\ writes.hundreds >= 1 => writes' = writes
       /\ writes'.hundreds <= 1
       /\ pc' = "done" => writes'.hundreds = 1]_vars

\* a run that went through the inner exception handler and finished
C3_Witness ==
    /\ pc = "done"
    /\ PROGRESS.message = "create_failed"
    /\ job.attach = "raise"
    /\ writes.hundreds = 1

\* a lookup of lines 88-89 returned None (-1: the lookup has not returned)
TokenMissing == job.spotify_token = 0 \/ job.soundcloud_token = 0

C5_AttachFailureIsPartial ==
    (pc = "done" /\ job.attach \in {"status", "raise"} /\ ~job.history_raised) =>
        /\ Len(history) = 1
        /\ history[1].transfer_status = "partial"
        /\ PROGRESS.message = "partial"
        /\ job.permalink # NoUrl =>
              /\ history[1].destination_playlist_url = job.permalink
              /\ PROGRESS.url = job.permalink

\* C6: transfer_playlist_async reports the length of the list and the number
\* of accepted matches, and a completed job is recorded with these two
C6_CountsReported ==
    /\ pc \in {"create", "attach", "returned"} =>
          /\ job.search_result.total_tracks = Len(batch.track_list)
          /\ job.search_result.found_tracks = Cardinality(Matched)
    /\ \A k \in 1..Len(history) :
          history[k].transfer_status = "completed" =>
              /\ history[k].tracks_total = Len(batch.track_list)
              /\ history[k].tracks_found = Cardinality(Matched)

\* the messages that report a failure
FailureMessages ==
    {"spotify_auth_required", "soundcloud_auth_required", "fetch_failed", "no_match",
     "transfer_failed"}

RECURSIVE IdsInSourceOrder(_)
IdsInSourceOrder(k) ==
    IF k = 0 THEN << >>
    ELSE IdsInSourceOrder(k - 1) \o
         (IF k \in Matched /\ task[k].result.id # 0 THEN <<task[k].result.id>> ELSE << >>)

\* C8: the track ids sent to the destination playlist are in the order of
\* the source playlist, whatever the order the resolutions completed in
C8_IdsInSourceOrder ==
    pc \in {"attach", "inner_exc", "outer_exc", "done"} /\ calls.create > 0 =>
        job.track_ids = IdsInSourceOrder(Len(batch.track_list))

\* two tracks with different ids are about to be attached
C8_Witness ==
    /\ pc = "attach"
    /\ Len(job.track_ids) = 2
    /\ job.track_ids[1] # job.track_ids[2]

\* C9: at most 5 resolutions hold the semaphore at any moment
C9_AtMostFiveInFlight == Cardinality(Holding) <= MaxConcurrent

\* five resolutions in flight, one of them asleep on the rate limit, and a
\* sixth waiting for the semaphore
C9_Witness ==
    /\ Cardinality(Holding) = MaxConcurrent
    /\ \E i \in DOMAIN task : task[i].pc = "sleep"
    /\ \E i \in DOMAIN task : task[i].pc = "pending"

\* C10: a failed resolution does not stop the batch: when the batch returns
\* every track has a result slot, and the slots of failed resolutions are
\* counted as misses
C10_FailuresAreMisses ==
    pc \in {"create", "returned"} =>
        /\ DOMAIN task = 1..Len(batch.track_list)
        /\ \A i \in DOMAIN task : task[i].pc = "done" /\ task[i].result.kind # "pending"
        /\ job.search_result.total_tracks = Len(batch.track_list)
        /\ job.search_result.found_tracks = Cardinality(Matched)
        /\ \A k \in 1..Len(job.search_result.tracks) :
              job.search_result.tracks[k].kind = "match"

\* the first resolution raised, the second returned a match
C10_Witness ==
    /\ pc = "returned"
    /\ Len(batch.track_list) = 2
    /\ task[1].result.kind = "Exception"
    /\ task[2].result.kind = "match"

\* the rows of the cache written for a query and a platform
RowsOf(query, platform) ==
    {k \in DOMAIN cache : cache[k].query = query /\ cache[k].platform = platform}

\* the dict _search_cache builds from a row
EntryOf(row) == Result("match", row.id, row.title, row.artist, row.match_score)

\* C11: when the cache holds an entry for (query, platform), the resolution
\* of that query returns a cached entry (or raises, if the lookup itself
\* fails) and leaves the rate-limit counters, the stored tokens and the
\* number of outbound requests unchanged
C11_CacheHitFrame ==
    [][\A i \in DOMAIN task :
          (/\ i \in DOMAIN task'
           /\ task[i].pc = "pending"
           /\ task'[i].pc # "pending"
           /\ RowsOf(TrackQuery(i), batch.platform) # {})
          => /\ task'[i].pc = "done"
             /\ \/ task'[i].result.kind = "Exception"
                \/ \E k \in RowsOf(TrackQuery(i), batch.platform) :
                      task'[i].result = EntryOf(cache[k])
             /\ batch'.rate_limits = batch.rate_limits
             /\ tokens' = tokens
             /\ calls' = calls]_vars

\* two resolutions returned a match and one search request was issued: the
\* second was answered from the cache
C11_Witness ==
    /\ pc = "searching"
    /\ Cardinality(Matched) = 2
    /\ calls.search = 1

\* C12: a cache row is only ever added, by a resolution that returns a match
\* whose score is at least 0.5, and holds that match; a resolution that ends
\* without a match leaves the cache as it was
C12_CacheOnlyAcceptedMatches ==
    [][/\ cache' # cache =>
            \E i \in DOMAIN task :
               /\ task[i].pc \in {"v2", "v1"}
               /\ task'[i].pc = "done"
               /\ task'[i].result.kind = "match"
               /\ 2 * task'[i].result.match_score.num >= task'[i].result.match_score.den
               /\ Len(cache') = Len(cache) + 1
               /\ SubSeq(cache', 1, Len(cache)) = cache
               /\ cache'[Len(cache')].query = TrackQuery(i)
               /\ cache'[Len(cache')].platform = batch.platform
               /\ EntryOf(cache'[Len(cache')]) = task'[i].result
       /\ \A i \in DOMAIN task :
            (/\ i \in DOMAIN task'
             /\ task[i].pc # "done"
             /\ task'[i].pc = "done"
             /\ task'[i].result.kind # "match")
            => cache' = cache]_vars

\* a row was written for one track while another resolution ended without a
\* match
C12_Witness ==
    /\ cache # << >>
    /\ \E i \in DOMAIN task : task[i].pc = "done" /\ task[i].result.kind = "None"

\* the normalised form of every query the cache can hold
NormalizedQuery == [t \in AllTracks |-> _normalize_string(Queries[t])]
NormalizedKey(query) ==
    NormalizedQuery[CHOOSE t \in AllTracks : Queries[t] = query]

\* C13: when the cache holds a fresh row for the platform whose query normalises
\* to the same string as the query of a resolution, the resolution is a
\* cache hit: it ends at once and issues no search request
C13_NormalisedKeys ==
    [][\A i \in DOMAIN task :
          (/\ i \in DOMAIN task'
           /\ task[i].pc = "pending"
           /\ task'[i].pc # "pending"
           /\ \E k \in DOMAIN cache :
                 /\ cache[k].platform = batch.platform
                 /\ cache[k].age = "fresh"
                 /\ NormalizedKey(cache[k].query) = NormalizedKey(TrackQuery(i)))
          => /\ task'[i].pc = "done"
             /\ calls'.search = calls.search]_vars

\* C14: when every row the cache holds for (query, platform) is older than
\* 3600 seconds, the resolution of that query does not return a cached row:
\* it goes on to a fresh search
C14_ExpiredEntryAbsent ==
    [][\A i \in DOMAIN task :
          (/\ i \in DOMAIN task'
           /\ task[i].pc = "pending"
           /\ task'[i].pc # "pending"
           /\ RowsOf(TrackQuery(i), batch.platform) # {}
           /\ \A k \in RowsOf(TrackQuery(i), batch.platform) : cache[k].age = "old")
          => task'[i].result.kind # "match"]_vars

\* the timestamps of a queue that are at most max_age seconds old
Within(requests_queue, max_age) ==
    {k \in DOMAIN requests_queue : requests_queue[k] <= max_age * TicksPerSecond}

\* the step is a call of can_make_request by caller c
IsCheck(c) ==
    /\ callers[c].pc \in {"idle", "sleeping"}
    /\ callers[c].wait = 0
    /\ callers'[c] # callers[c]

\* C15: while requests_per_minute calls of consume_request for the key are
\* at most 60 seconds old, every can_make_request for the key returns
\* not-allowed with a wait time of at least one second
C15_DeniedAtMinuteLimit ==
    [][\A c \in Callers :
          (/\ IsCheck(c)
           /\ Cardinality(Within(bucket.minute_requests, MinuteSeconds))
                 >= RequestsPerMinute)
          => /\ callers'[c].pc = "sleeping"
             /\ callers'[c].wait >= TicksPerSecond]_vars

\* a caller has just been denied while requests_per_minute consumed requests
\* are in the minute window
C15_Witness ==
    \E c \in Callers :
       /\ callers[c].pc = "sleeping"
       /\ callers[c].wait >= TicksPerSecond
       /\ Cardinality(Within(bucket.minute_requests, MinuteSeconds)) >= RequestsPerMinute
       /\ bucket.minute_requests[1] + callers[c].wait = (MinuteSeconds + 1) * TicksPerSecond

\* C16: the minute window never holds more than requests_per_minute
\* timestamps and the hour window never more than requests_per_hour
C16_WindowsWithinLimits ==
    /\ Cardinality(Within(bucket.minute_requests, MinuteSeconds)) <= RequestsPerMinute
    /\ Cardinality(Within(bucket.hour_requests, HourSeconds)) <= RequestsPerHour

\* C17: a caller that was denied and polls again after each sleep is
\* eventually allowed, whoever else polls the key in between
C17_EventuallyAllowed ==
    \A c \in Callers : (callers[c].pc = "sleeping") ~> (callers[c].pc = "allowed")

\* C18: a token lookup that leaves the stored record expired (the refresh
\* failed) returns None: the job does not get a token from it, and a
\* resolution does not send a request with it
C18_ExpiredTokenNotReturned ==
    [][/\ pc = "auth" =>
            /\ job'.spotify_token > 0 => tokens'.spotify.expires # "past"
            /\ job'.soundcloud_token > 0 => tokens'.soundcloud.expires # "past"
       /\ \A i \in DOMAIN task :
            (/\ i \in DOMAIN task'
             /\ task[i].pc \in {"pending", "sleep"}
             /\ task'[i].pc = "v2")
            => tokens'[batch.platform].expires # "past"]_vars

\* C19: a refresh that succeeds with a response without refresh_token
\* stores a new access token and a new expiry and leaves the stored refresh
\* token as it was, in the user_sessions row and in the SoundCloud token file
C19_RefreshTokenKept ==
    [][/\ \A p \in Platforms :
            (tokens[p].access # 0 /\ tokens'[p].access # tokens[p].access)
            => /\ tokens'[p].access > tokens[p].access
               /\ tokens'[p].expires = "future"
               /\ tokens'[p].refresh = tokens[p].refresh
               /\ tokens'[p].refresh # 0
       /\ (sync.blob.access # 0 /\ sync'.blob.access # sync.blob.access)
            => /\ sync'.blob.access > sync.blob.access
               /\ sync'.blob.refresh = sync.blob.refresh
               /\ sync'.blob.refresh # 0]_vars

\* a stored record was refreshed and still holds its refresh token
C19_Witness ==
    \E p \in Platforms :
       tokens[p].access = 2 /\ tokens[p].refresh = 1 /\ tokens[p].expires = "future"

\* C20: no two token lookups of one session have a refresh request for the
\* same platform out at the same time, and so no refresh token is sent in
\* two overlapping requests
C20_OneRefreshInFlight ==
    \A c1, c2 \in LookupCallers :
       (/\ c1 # c2
        /\ lookups[c1].pc = "posting"
        /\ lookups[c2].pc = "posting")
       => /\ lookups[c1].platform # lookups[c2].platform
          /\ lookups[c1].sent # lookups[c2].sent

\* a refresh request is out while another caller of the same session has
\* yet to look up the same, still expired, record
C20_Witness ==
    \E c1, c2 \in LookupCallers :
       /\ c1 # c2
       /\ lookups[c1].pc = "posting"
       /\ lookups[c1].sent # 0
       /\ lookups[c2].pc = "idle"
       /\ NeedsRefresh(tokens[lookups[c1].platform])


(***************************************************************************)
(* The requests of a resolution                                            *)
(***************************************************************************)
\* this step is the answer status from endpoint to the request of task i
IsAnswer(i, endpoint, status) ==
    /\ i \in DOMAIN task
    /\ task[i].pc = endpoint
    /\ task' # task
    /\ observed'.kind = "exchange"
    /\ observed'.task = i
    /\ observed'.endpoint = endpoint
    /\ observed'.status = status

\* C21: when the primary search endpoint answers a resolution with 401, the
\* resolver refreshes the token once and sends the primary request once
\* more, with the refreshed token, before the track can count as failed
C21_RefreshAndRetryOn401 ==
    [][\A i \in DOMAIN task :
         IsAnswer(i, "v2", "401") =>
           /\ observed'.refreshes = 1
           /\ calls'.search = calls.search + 1
           /\ task'[i].pc = "v2"
           /\ observed'.headers[i] = tokens'[batch.platform].access
           /\ observed'.headers[i] # observed.headers[i]]_vars

\* a status that is an answer other than 200
NonSuccess(status) == status \notin {"200", "raise"}

\* the fallback of AsyncTrackSearcher.search_soundcloud_track, as a step
AsyncFallsBack ==
    \A i \in DOMAIN task, status \in Statuses :
        /\ IsAnswer(i, "v2", status) /\ NonSuccess(status) /\ batch.platform = "soundcloud" =>
             /\ task'[i].pc = "v1"
             /\ calls'.search = calls.search + 1
             /\ observed'.headers[i] = observed.headers[i]
             /\ observed'.refreshes = 0
        /\ IsAnswer(i, "v1", status) /\ NonSuccess(status) =>
             /\ task'[i] = [pc |-> "done", result |-> NoneResult]
             /\ calls' = calls

\* the fallback of soundcloud.search_soundcloud_track, over the requests of
\* one call
SyncFallsBack ==
    pc = "sync_loop" /\ sync' # sync /\ observed'.kind = "sync" =>
      LET sent == observed'.requests
          v2s == {k \in DOMAIN sent : sent[k].endpoint = "v2"}
          v1s == {k \in DOMAIN sent : sent[k].endpoint = "v1"}
          last == CHOOSE k \in v2s : \A j \in v2s : j <= k
      IN  v2s # {} /\ NonSuccess(sent[last].status) =>
            /\ v1s = {last + 1}
            /\ sent[last + 1].token = sent[last].token
            /\ NonSuccess(sent[last + 1].status) =>
                 /\ Len(sent) = last + 1
                 /\ pc' = "sync_loop"
                 /\ sync'.misses = sync.misses + 1

\* C22: when the v2 search of SoundCloud answers with a status other than
\* 200, exactly one v1 request follows, with the access token of the last v2
\* request; when v1 answers with a status other than 200 too, the track is a
\* miss and no further search request is made for it
C22_OneFallbackSameToken == [][AsyncFallsBack /\ SyncFallsBack]_vars

(***************************************************************************)
(* The matches a search returns                                            *)
(***************************************************************************)
\* the word-set Jaccard score of every candidate against every query
Jaccard ==
    [t \in AllTracks, c \in Candidates |->
        _calculate_match_score(Queries[t], JoinTA(c.title, c.user))]

\* the match (id, title, artist) is a candidate that scores at least 0.5
\* against the query of track t
AtLeastHalf(t, id, title, artist) ==
    \E c \in Candidates :
        /\ c.id = id /\ c.title = title /\ c.user = artist
        /\ 2 * Jaccard[t, c].num >= Jaccard[t, c].den

\* C23: a match that a search returns, from a response or from the cache,
\* scores at least 0.5 against the query (word-set Jaccard); this holds for
\* both methods of AsyncTrackSearcher and for soundcloud.search_soundcloud_track
C23_MatchesScoreAtLeastHalf ==
    /\ \A i \in DOMAIN task :
         task[i].result.kind = "match" =>
           AtLeastHalf(batch.track_list[i], task[i].result.id,
                       task[i].result.title, task[i].result.artist)
    /\ observed.kind = "sync" /\ observed.hit > 0 =>
         \E c \in Candidates :
            /\ c.id = observed.hit - 1
            /\ 2 * Jaccard[observed.track, c].num >= Jaccard[observed.track, c].den

\* two resolutions of one query returned the match with one search request
\* between them: one from the response, one from the cache
C23_Witness ==
    /\ Len(task) = 2
    /\ \A i \in DOMAIN task : task[i].pc = "done" /\ task[i].result.kind = "match"
    /\ calls.search = 1
    /\ Len(cache) = 1

\* x < y on two scores
Below(x, y) == x.num * y.den < y.num * x.den

\* the position in items of the candidate with the maximum score against
\* track t, the earliest of them; 0 for an empty response
BestIndex(t, items) ==
    IF items = << >> THEN 0
    ELSE CHOOSE k \in 1..Len(items) :
            /\ \A j \in 1..Len(items) : ~Below(Jaccard[t, items[k]], Jaccard[t, items[j]])
            /\ \A j \in 1..(k - 1) : Below(Jaccard[t, items[j]], Jaccard[t, items[k]])

\* C24: of the candidates of one response the resolver returns the one with
\* the maximum score if that score is at least 0.5, the earliest in the
\* response when several have it, and none otherwise
C24_MaximumOrNone ==
    observed.kind = "picked" =>
      LET t == observed.track
          items == observed.items
          k == BestIndex(t, items)
      IN  IF k # 0 /\ 2 * Jaccard[t, items[k]].num >= Jaccard[t, items[k]].den
          THEN /\ observed.best = MatchResult(items[k], Jaccard[t, items[k]])
               /\ observed.hit = items[k].id + 1
          ELSE /\ observed.best = NoneResult
               /\ observed.hit = 0

\* two different candidates share the maximum score and the first is returned
C24_Witness ==
    /\ observed.kind = "picked"
    /\ Len(observed.items) = 2
    /\ observed.items[1] # observed.items[2]
    /\ Jaccard[observed.track, observed.items[1]] = Jaccard[observed.track, observed.items[2]]
    /\ observed.best = MatchResult(observed.items[1], Jaccard[observed.track, observed.items[1]])
    /\ observed.hit = observed.items[1].id + 1

(***************************************************************************)
(* Normalisation and score as functions                                    *)
(***************************************************************************)
\* C25: _normalize_string and _norm are idempotent: normalising a normalised
\* string gives the same string, also for a string with a stoplist word
\* between other words and for a string of stoplist words only
C25_NormalizeIdempotent ==
    observed.kind = "normalized" =>
      /\ observed.twice = observed.once
      /\ observed.sync_twice = observed.sync_once

\* the score 1.0
IsOne(score) == score.num = score.den /\ score.den # 0

\* C26: a string whose normalised form is not the empty string scores 1.0
\* against itself, whether or not the normalised form has a word in it
C26_SelfScoreIsOne ==
    observed.kind = "scored" /\ observed.normalized # << >> =>
      /\ IsOne(observed.aa)
      /\ IsOne(observed.sync_aa)

\* C27: the score is symmetric: _calculate_match_score(a, b) is
\* _calculate_match_score(b, a) and _score(a, b) is _score(b, a)
C27_ScoreSymmetric ==
    observed.kind = "scored" =>
      /\ observed.ab = observed.ba
      /\ observed.sync_ab = observed.sync_ba

\* two strings that share one of their words and differ in the other
C27_Witness ==
    /\ observed.kind = "scored"
    /\ observed.ab = Frac(1, 2)
    /\ observed.ba = Frac(1, 2)
    /\ observed.sync_ab = Frac(1, 2)
    /\ observed.a # observed.b

(***************************************************************************)
(* The rate limit of the resolver                                          *)
(***************************************************************************)
\* this step ends resolution i without a request because the token lookup
\* returned None: only "if not token: return None" returns None from a
\* resolution that has not sent a request
EndsWithoutToken(i) ==
    /\ i \in DOMAIN task
    /\ i \in DOMAIN task'
    /\ task[i].pc \in {"pending", "sleep"}
    /\ task'[i] = [pc |-> "done", result |-> NoneResult]

\* C28: a resolution that ends because no token is available has left the
\* rate limiter alone: the counter and the window are as they were, it has
\* not slept, and it has sent no search request
C28_NoTokenBeforeRateLimit ==
    [][\A i \in DOMAIN task :
         EndsWithoutToken(i) =>
           /\ task[i].pc = "pending"
           /\ batch'.rate_limits = batch.rate_limits
           /\ calls'.search = calls.search]_vars

\* this step sends the first search request of resolution i
SendsFirstRequest(i) ==
    /\ i \in DOMAIN task
    /\ i \in DOMAIN task'
    /\ task[i].pc \in {"pending", "sleep"}
    /\ task'[i].pc = "v2"

\* C29: the search requests for a platform within one counting window never
\* exceed the platform's limit: every request is sent by a step that has
\* just made a reservation the limiter allowed, also after a denied check
\* and the sleep that follows it
C29_EveryRequestReserved ==
    [][\A i \in DOMAIN task :
         SendsFirstRequest(i) =>
           \E window_over \in BOOLEAN :
              LET p == batch.platform
                  rl == _check_rate_limit(AtCheck(batch.rate_limits[p], window_over))
              IN  /\ rl.allowed
                  /\ batch'.rate_limits[p] = rl.info
                  /\ rl.info.requests <= rl.info.limit]_vars

(***************************************************************************)
(* The transfer endpoint                                                   *)
(***************************************************************************)
\* C30: a POST to /transfer/spotify-to-soundcloud whose URL does not contain
\* 'open.spotify.com/playlist/' is rejected before any token lookup or
\* refresh, schedules no background job and leaves the progress record as
\* it was
C30_InvalidUrlRejectedFirst ==
    [][(/\ pc = "idle"
        /\ pc' # "idle"
        /\ observed'.kind = "request"
        /\ ~Contains(observed'.spotify_url, PlaylistMarker)) =>
           /\ pc' = "rejected"
           /\ observed'.response = "invalid_url"
           /\ observed'.lookups = 0
           /\ tokens' = tokens
           /\ PROGRESS' = PROGRESS
           /\ writes' = writes
           /\ calls' = calls
           /\ job' = job]_vars

\* a URL of another Spotify page was rejected
C30_Witness ==
    /\ pc = "rejected"
    /\ observed.kind = "request"
    /\ Contains(observed.spotify_url, <<"s", "p", "o", "t", "i", "f", "y">>)
    /\ ~Contains(observed.spotify_url, PlaylistMarker)

(***************************************************************************)
(* The progress record                                                     *)
(***************************************************************************)
\* x is an integer in 0..100
IsPercent(x) == x.num % x.den = 0 /\ x.num \div x.den \in 0..100

SentTo(endpoint) ==
    {k \in DOMAIN observed.requests : observed.requests[k].endpoint = endpoint}

\* the observed call of soundcloud.search_soundcloud_track got a 401 for
\* its first v2 request
FirstV2Is401 ==
    /\ observed.kind = "sync"
    /\ observed.requests # << >>
    /\ observed.requests[1].status = "401"

\* the refresh attempt of the observed call saved no new access token
RefreshFailed == observed.saved = observed.stored

\* C33: one call of soundcloud.search_soundcloud_track makes at most one
\* refresh attempt and at most three search requests; a 401 from v2 leads to
\* exactly one attempt; when the attempt fails, the call returns None and
\* sends nothing more; otherwise v2 is sent exactly once more, and a 401 for
\* that request leads to no second attempt
C33_OneRefreshThreeSearches ==
    observed.kind = "sync" =>
      LET sent == observed.requests
      IN  /\ observed.attempts <= 1
          /\ observed.refreshes <= observed.attempts
          /\ Len(sent) <= 3
          /\ Cardinality(SentTo("v1")) <= 1
          /\ observed.attempts = 1 <=> FirstV2Is401
          /\ FirstV2Is401 /\ RefreshFailed =>
               /\ Len(sent) = 1
               /\ observed.hit = 0
          /\ FirstV2Is401 /\ ~RefreshFailed =>
               /\ SentTo("v2") = {1, 2}
               /\ sent[2].token = observed.saved
               /\ sent[2].status = "401" =>
                    /\ observed.attempts = 1
                    /\ SentTo("v1") = {3}

\* a call whose retried v2 request was answered with 401 again
C33_Witness ==
    /\ FirstV2Is401
    /\ Len(observed.requests) = 3
    /\ observed.requests[2].status = "401"

\* a call whose refresh attempt failed: without a refresh token, and with a
\* POST that was refused
FailedWithoutPost == FirstV2Is401 /\ RefreshFailed /\ observed.refreshes = 0
FailedWithPost == FirstV2Is401 /\ RefreshFailed /\ observed.refreshes = 1 /\ ~observed.raised

(***************************************************************************)
(* What a completed job has attached                                       *)
(***************************************************************************)
\* C34: a job is recorded as 'completed' only after at least one track id
\* was attached to the created playlist: no row has status 'completed' with
\* tracks_found = 0, also when a matched candidate has no id or the create
\* response has no playlist id
C34_CompletedHasAttached ==
    \A k \in 1..Len(history) :
        history[k].transfer_status = "completed" =>
            /\ history[k].tracks_found >= 1
            /\ job.track_ids # << >>
            /\ job.attach = "ok"

(***************************************************************************)
(* The token of the requests that end a job                                *)
(***************************************************************************)
\* the step sends the POST that creates the playlist or the PUT that
\* attaches the tracks; both carry "OAuth {soundcloud_token}" of line 162
SendsCreateOrAttach ==
    \/ calls'.create = calls.create + 1
    \/ calls'.attach = calls.attach + 1

\* C37: the SoundCloud access token of the playlist-creation and the
\* track-attachment request is the access token stored for the session when
\* the request is sent, also when a refresh during the search phase replaced
\* the stored token
C37_CreateUsesStoredToken ==
    [][SendsCreateOrAttach => job.soundcloud_token = tokens.soundcloud.access]_vars

(***************************************************************************)
(* The rows of one cache key                                               *)
(***************************************************************************)
\* C36: whatever the interleaving of the concurrent resolutions, also when
\* one playlist holds the same track twice and both are resolved at the same
\* time, the cache holds at most one entry for each (query, platform)
C36_OneEntryPerKey ==
    \A j \in DOMAIN cache, k \in DOMAIN cache :
        (cache[j].query = cache[k].query /\ cache[j].platform = cache[k].platform) => j = k

(***************************************************************************)
(* The writers of one session's progress record                            *)
(***************************************************************************)
\* the step is a set_progress call of a job
JobWrites == writes'.n = writes.n + 1

\* C35: at most one transfer job writes to the progress record of a session
\* at a time: a second submission while the job of the session has not
\* returned starts no second writer, and once the record is at percent 100 no
\* write of a job lowers it
C35_OneWriterPerSession ==
    [][/\ ~(JobRunning' /\ OtherJobRunning')
       /\ (PROGRESS.percent = 100 /\ JobWrites) => PROGRESS'.percent = 100]_vars

\* the record at 100 is lowered by the write of a job that is still running
LoweredFromHundred ==
    [][(PROGRESS.percent = 100 /\ JobWrites) => PROGRESS'.percent = 100]_vars

(***************************************************************************)
(* The wait of a denial                                                    *)
(***************************************************************************)
\* the queue as a can_make_request finds it after seconds more seconds in
\* which nothing was appended, cleaned for a window of max_age seconds
AfterWait(requests_queue, seconds, max_age) ==
    _clean_old_requests([k \in DOMAIN requests_queue |->
                             requests_queue[k] + seconds * TicksPerSecond], max_age)

\* the window that makes can_make_request deny on the bucket, if one does
DeniedBy(b) ==
    IF MinuteFull(_clean_old_requests(b.minute_requests, MinuteSeconds)) THEN "minute"
    ELSE IF Len(_clean_old_requests(b.hour_requests, HourSeconds)) >= RequestsPerHour
    THEN "hour"
    ELSE "none"

\* the wait a denial by a full window returns is at least one second, and
\* after it the oldest timestamp is out of the window and the window is no
\* longer full
WaitAgesOut(b, wait_time) ==
    /\ wait_time >= 1
    /\ DeniedBy(b) = "minute" =>
         /\ b.minute_requests[1] + wait_time * TicksPerSecond > MinuteSeconds * TicksPerSecond
         /\ ~MinuteFull(AfterWait(b.minute_requests, wait_time, MinuteSeconds))
    /\ DeniedBy(b) = "hour" =>
         /\ b.hour_requests[1] + wait_time * TicksPerSecond > HourSeconds * TicksPerSecond
         /\ Len(AfterWait(b.hour_requests, wait_time, HourSeconds)) < RequestsPerHour

\* C38: when can_make_request denies because the minute window or the hour
\* window is full, the wait it returns is at least one second, and once that
\* many seconds have passed with no further consume_request on the key the
\* oldest timestamp has left the window and the window no longer denies
C38_WaitAgesOutOldest ==
    [][\A c \in Callers :
          (IsCheck(c) /\ DeniedBy(bucket) # "none") =>
              /\ callers'[c].pc = "sleeping"
              /\ WaitAgesOut(bucket', callers'[c].wait \div TicksPerSecond)]_vars

\* the same for the denials of a window that holds no more timestamps than
\* its limit
C38_WithinLimits ==
    [][\A c \in Callers :
          (/\ IsCheck(c)
           /\ DeniedBy(bucket) # "none"
           /\ Len(bucket'.minute_requests) <= RequestsPerMinute
           /\ Len(bucket'.hour_requests) <= RequestsPerHour) =>
              /\ callers'[c].pc = "sleeping"
              /\ WaitAgesOut(bucket', callers'[c].wait \div TicksPerSecond)]_vars

\* a caller has just been denied by the hour window alone
DeniedByHour ==
    /\ DeniedBy(bucket) = "hour"
    /\ Len(bucket.hour_requests) <= RequestsPerHour
    /\ \E c \in Callers :
          /\ callers[c].pc = "sleeping"
          /\ bucket.hour_requests[1] + callers[c].wait > HourSeconds * TicksPerSecond

(***************************************************************************)
(* The tokens of the bucket in sequential use                              *)
(***************************************************************************)
\* the requests recorded with no time between them and the one of age; ages
\* below AgeCap are exact
SameInstant(age) == {k \in DOMAIN bucket.hour_requests : bucket.hour_requests[k] = age}

\* C39: in sequential use of one key, where each consume_request directly
\* follows an allowed can_make_request, the token count of the bucket stays
\* within 0..burst_limit, and no more than burst_limit requests are recorded
\* with no time between them
C39_TokensWithinBurst ==
    /\ bucket.tokens \in 0..BurstLimit
    /\ \A age \in 0..(AgeCap - 1) : Cardinality(SameInstant(age)) <= BurstLimit

\* the bucket was refilled to burst_limit and a request has taken a token
C39_Witness ==
    /\ bucket.tokens = BurstLimit - 1
    /\ bucket.minute_requests # << >>
    /\ \A c \in Callers : callers[c].pc # "allowed"

\* the bucket is full
BucketFull == bucket.tokens = BurstLimit /\ \E c \in Callers : callers[c].pc = "allowed"

(***************************************************************************)
(* The playlist transfer_to_spotify creates                                *)
(***************************************************************************)
\* C32: transfer_to_spotify calls the playlist creation only after at least
\* one track of the file has been found by the search, so a file none of
\* whose tracks is found leaves no playlist behind
C32_CreateOnlyAfterMatch ==
    [][calls'.create = calls.create + 1 => sync.found_ids # << >>]_vars

\* a run that returned with a playlist created and no track found
EmptyPlaylistLeft ==
    /\ pc = "sp_returned"
    /\ calls.create = 1
    /\ sync.pairs # << >>
    /\ sync.found_ids = << >>
    /\ sync.message = "transfer_complete"

(***************************************************************************)
(* The attempts of retry_operation                                         *)
(***************************************************************************)
\* every invocation of the call before the last one raised
EarlierAllFailed ==
    \A k \in 1..(Len(observed.trail) - 1) : observed.trail[k] \in Errors

\* C40: retry_operation invokes the operation at most max_retries + 1 times;
\* it returns the result of the first invocation that succeeds and invokes
\* nothing after it; after max_retries + 1 failures it raises the error of
\* the last invocation, having slept max_retries times: once after each
\* failure but the last
C40_BoundedAttempts ==
    observed.kind = "retry" =>
      /\ Len(observed.trail) <= observed.max_retries + 1
      /\ EarlierAllFailed
      /\ \A k \in DOMAIN observed.sleeps :
            observed.sleeps[k] = observed.base_delay * Pow2(k - 1)
      /\ observed.state = "returned" =>
            /\ observed.result = observed.trail[Len(observed.trail)]
            /\ observed.result \in Values
            /\ Len(observed.sleeps) = Len(observed.trail) - 1
      /\ observed.state = "raised" =>
            /\ Len(observed.trail) = observed.max_retries + 1
            /\ observed.raised = observed.trail[Len(observed.trail)]
            /\ observed.raised \in Errors
            /\ Len(observed.sleeps) = observed.max_retries

\* every attempt failed, with a different error the last time
C40_Witness ==
    /\ observed.kind = "retry"
    /\ observed.state = "raised"
    /\ observed.max_retries = MaxRetries
    /\ observed.trail[1] # observed.raised

\* the operation succeeded at its second invocation
ReturnedAfterRetry ==
    /\ observed.kind = "retry"
    /\ observed.state = "returned"
    /\ Len(observed.trail) = 2

====
